---- MODULE Spec2Model ----
(***************************************************************************)
(* Room registry (rooms.ts) and Socket.IO signaling relay (index.ts) of    *)
(* the P2P/SFU video calling server, with the LiveKit token endpoint       *)
(* (livekit.ts).                                                           *)
(***************************************************************************)
EXTENDS Integers, Sequences, FiniteSets, TLC

(* ------------------------- bounds and inputs --------------------------- *)

\* the transport connections (sockets) that ever connect
Conns == {1, 2, 3}

\* number of join-room and disconnect invocations in a behaviour that also
\* forwards negotiation messages
MaxRelayOps == 2

\* identities and room identifiers a client may supply
UserIds == {"a", "b", "c"}
RoomIds == {"R1", "R2"}
\* <<roomId, userId>> of a join-room message
JoinInputs == {<<"R1", "a">>, <<"R1", "b">>, <<"R1", "c">>, <<"R2", "a">>}
\* <<roomId, userId>> of a POST /api/room body; "" is an empty or missing field
RestInputs == {<<"R1", "a">>, <<"R1", "b">>, <<"R1", "c">>, <<"", "a">>, <<"R1", "">>}
\* <<from, payload>> of a forwarded negotiation message
RelayInputs == {<<"a", "sdp1">>, <<"b", "sdp2">>}

\* number of times the mode of a room changes in a behaviour that follows
\* a room back and forth over the boundary between 2 and 3 participants
MaxFlips == 4

\* number of disconnects of a socket whose identity is no participant of
\* its room in a behaviour that follows such disconnects
MaxStrays == 2

\* number of negotiation messages sent in a behaviour that follows them
\* from their sender through the server to the other sockets
MaxSends == 3

\* number of joins and disconnects in a behaviour that follows the events
\* to the Call components
MaxViewOps == 3

\* number of invocations in a behaviour that calls every endpoint with
\* present and with empty fields
MaxApiOps == 2

\* <<roomId, userId>> of a request of SpecApi; "" is an empty or missing field
ApiInputs == {<<"R1", "a">>, <<"R1", "b">>, <<"", "a">>, <<"R1", "">>}

\* process.env: whether LIVEKIT_API_KEY and LIVEKIT_API_SECRET are set
Envs == [apiKey : BOOLEAN, apiSecret : BOOLEAN]
Configured == [apiKey |-> TRUE, apiSecret |-> TRUE]

\* value of a socket.data field that was never assigned
Undefined == "<undefined>"

\* JavaScript truthiness of a string-or-undefined value
Truthy(x) == x # Undefined /\ x # ""

(* ------------------------------ state ---------------------------------- *)

VARIABLES
    rooms,        \* the Map<string, Room> of rooms.ts
    status,       \* per socket: "idle" (not yet connected), "open", "closed"
    socketData,   \* per socket: socket.data = {roomId, userId}
    socketRooms,  \* per socket: the Socket.IO rooms it has joined
    emitted,      \* events emitted by the last handler, in emission order
    response,     \* HTTP response of the last REST handler
    scenario,     \* progress of the R1 a/b/c walkthrough (see Script)
    nops,         \* invocations counted against the bound of a specification
    env,          \* process.env of the server (see Envs)
    held,         \* a Room reference a caller of rooms.ts kept (see Kept)
    peers,        \* per username: the P2PCall component and its RTCPeerConnection
    clients       \* per socket: the Call component and the two directions of
                  \* its connection (see Call)

vars == <<rooms, status, socketData, socketRooms, emitted, response, scenario,
          nops, env, held, peers, clients>>

(* --------------------------- rooms.ts ---------------------------------- *)

RECURSIVE filterOut(_, _)
\* participants.filter(id => id !== userId)
filterOut(s, userId) ==
    IF s = <<>> THEN <<>>
    ELSE IF Head(s) = userId THEN filterOut(Tail(s), userId)
         ELSE <<Head(s)>> \o filterOut(Tail(s), userId)

\* participants.includes(userId)
includes(s, userId) == \E i \in 1..Len(s) : s[i] = userId

\* the mode rule with the threshold one too high
modeFor_OffByOne(n) == IF n <= 3 THEN "p2p" ELSE "sfu"

\* the mode rule applied at the end of joinRoom and leaveRoom
modeFor(n) == IF n <= 2 THEN "p2p" ELSE "sfu"

\* rooms.set(roomId, room)
mapSet(rs, roomId, room) ==
    [x \in (DOMAIN rs) \cup {roomId} |-> IF x = roomId THEN room ELSE rs[x]]

\* rooms.delete(roomId)
mapDelete(rs, roomId) == [x \in (DOMAIN rs) \ {roomId} |-> rs[x]]

\* getRoom: the room, or undefined
hasRoom(rs, roomId) == roomId \in DOMAIN rs
getRoom(rs, roomId) == rs[roomId]

createRoom(rs, roomId, userId) ==
    mapSet(rs, roomId, [id |-> roomId, mode |-> "p2p", participants |-> <<userId>>])

\* joinRoom without the includes() test: the identity is always pushed
joinRoom_NoDedup(rs, roomId, userId) ==
    LET rs1 == IF ~hasRoom(rs, roomId) THEN createRoom(rs, roomId, userId)
               ELSE mapSet(rs, roomId,
                      [rs[roomId] EXCEPT !.participants = Append(@, userId)])
    IN  mapSet(rs1, roomId,
          [rs1[roomId] EXCEPT !.mode = modeFor(Len(rs1[roomId].participants))])

\* joinRoom that puts a new identity first (unshift instead of push)
joinRoom_Unshift(rs, roomId, userId) ==
    LET rs1 == IF ~hasRoom(rs, roomId) THEN createRoom(rs, roomId, userId)
               ELSE IF ~includes(rs[roomId].participants, userId)
                    THEN mapSet(rs, roomId,
                           [rs[roomId] EXCEPT !.participants = <<userId>> \o @])
                    ELSE rs
    IN  mapSet(rs1, roomId,
          [rs1[roomId] EXCEPT !.mode = modeFor(Len(rs1[roomId].participants))])

\* joinRoom: the registry after the call; the returned room is the entry
\* for roomId in it
joinRoom(rs, roomId, userId) ==
    LET rs1 == IF ~hasRoom(rs, roomId) THEN createRoom(rs, roomId, userId)
               ELSE IF ~includes(rs[roomId].participants, userId)
                    THEN mapSet(rs, roomId,
                           [rs[roomId] EXCEPT !.participants = Append(@, userId)])
                    ELSE rs
    IN  mapSet(rs1, roomId,
          [rs1[roomId] EXCEPT !.mode = modeFor(Len(rs1[roomId].participants))])

\* leaveRoom that leaves the mode as it was
leaveRoom_NoModeUpdate(rs, roomId, userId) ==
    IF ~hasRoom(rs, roomId) THEN [rooms |-> rs, null |-> TRUE]
    ELSE LET ps == filterOut(rs[roomId].participants, userId)
         IN  IF Len(ps) = 0
             THEN [rooms |-> mapDelete(rs, roomId), null |-> TRUE]
             ELSE [rooms |-> mapSet(rs, roomId, [rs[roomId] EXCEPT !.participants = ps]),
                   null |-> FALSE]

\* leaveRoom that returns null for an emptied room but keeps it in the map
leaveRoom_NoDelete(rs, roomId, userId) ==
    IF ~hasRoom(rs, roomId) THEN [rooms |-> rs, null |-> TRUE]
    ELSE LET ps == filterOut(rs[roomId].participants, userId)
         IN  [rooms |-> mapSet(rs, roomId,
                          [rs[roomId] EXCEPT !.participants = ps,
                                             !.mode = modeFor(Len(ps))]),
              null |-> Len(ps) = 0]

\* leaveRoom with hysteresis: a room that was sfu stays sfu until it is
\* down to one participant
leaveRoom_Hysteresis(rs, roomId, userId) ==
    IF ~hasRoom(rs, roomId) THEN [rooms |-> rs, null |-> TRUE]
    ELSE LET ps == filterOut(rs[roomId].participants, userId)
         IN  IF Len(ps) = 0
             THEN [rooms |-> mapDelete(rs, roomId), null |-> TRUE]
             ELSE [rooms |-> mapSet(rs, roomId,
                               [rs[roomId] EXCEPT !.participants = ps,
                                                  !.mode = IF Len(ps) >= 2
                                                           THEN @ ELSE "p2p"]),
                   null |-> FALSE]

\* leaveRoom with participants.splice(participants.indexOf(userId), 1):
\* an identity that is not found takes the last participant out
leaveRoom_Splice(rs, roomId, userId) ==
    IF ~hasRoom(rs, roomId) THEN [rooms |-> rs, null |-> TRUE]
    ELSE LET old == rs[roomId].participants
             ps == IF includes(old, userId) THEN filterOut(old, userId)
                   ELSE SubSeq(old, 1, Len(old) - 1)
         IN  IF Len(ps) = 0
             THEN [rooms |-> mapDelete(rs, roomId), null |-> TRUE]
             ELSE [rooms |-> mapSet(rs, roomId,
                               [rs[roomId] EXCEPT !.participants = ps,
                                                  !.mode = modeFor(Len(ps))]),
                   null |-> FALSE]

\* leaveRoom: the registry after the call, and whether it returned null
leaveRoom(rs, roomId, userId) ==
    IF ~hasRoom(rs, roomId) THEN [rooms |-> rs, null |-> TRUE]
    ELSE LET ps == filterOut(rs[roomId].participants, userId)
         IN  IF Len(ps) = 0
             THEN [rooms |-> mapDelete(rs, roomId), null |-> TRUE]
             ELSE [rooms |-> mapSet(rs, roomId,
                               [rs[roomId] EXCEPT !.participants = ps,
                                                  !.mode = modeFor(Len(ps))]),
                   null |-> FALSE]

(* --------------------------- Socket.IO --------------------------------- *)

\* io.to(roomId): every connected socket that joined the Socket.IO room
ioTo(st, sr, roomId) == {c \in Conns : st[c] = "open" /\ roomId \in sr[c]}

\* forwarding with io.to(roomId): the sender is not excluded
socketTo_IoTo(st, sr, self, roomId) == ioTo(st, sr, roomId)

\* socket.to(roomId): the same, except the sending socket
socketTo(st, sr, self, roomId) == ioTo(st, sr, roomId) \ {self}

ModeChanged(roomId, old, new, ps, to) ==
    [type |-> "mode-changed", roomId |-> roomId, oldMode |-> old,
     newMode |-> new, participants |-> ps, to |-> to]

RoomUpdated(roomId, mode, ps, to) ==
    [type |-> "room-updated", roomId |-> roomId, mode |-> mode,
     participants |-> ps, to |-> to]

Relayed(type, from, payload, to) ==
    [type |-> type, from |-> from, payload |-> payload, to |-> to]

NoResponse == [status |-> 0]

(* ---------------------- walkthrough monitor ---------------------------- *)

\* join(R1,a), join(R1,b), join(R1,c), leave(c), leave(a), leave(b)
Script == << <<"join-room", "R1", "a">>, <<"join-room", "R1", "b">>,
             <<"join-room", "R1", "c">>, <<"disconnect", "R1", "c">>,
             <<"disconnect", "R1", "a">>, <<"disconnect", "R1", "b">> >>

\* the monitor advances while the handler invocations are exactly the
\* script, and is switched off (-1) by any other invocation
Advance(kind, roomId, userId) ==
    IF scenario >= 0 /\ scenario < Len(Script)
       /\ Script[scenario + 1] = <<kind, roomId, userId>>
    THEN scenario + 1 ELSE -1

(* ----------------------- Room object references ------------------------ *)

\* no reference is kept
NoRef == [roomId |-> Undefined]

\* The Room object that getRoom, joinRoom and leaveRoom return is the object
\* stored in the Map.  Kept(room) is such a reference in the hands of the
\* caller: atReturn is what it showed when it was returned, now is what it
\* shows at present, inMap says whether the Map still holds the object.
Kept(room) == [roomId |-> room.id, atReturn |-> room, now |-> room, inMap |-> TRUE]

\* What the kept reference shows after the registry went from rs to rs2:
\* joinRoom pushes onto room.participants and assigns room.mode in place,
\* leaveRoom assigns room.participants and room.mode in place and, when the
\* list is empty, removes the object from the Map before touching its mode.
alias(h, rs, rs2) ==
    IF h = NoRef \/ ~h.inMap THEN h
    ELSE IF h.roomId \in DOMAIN rs2
         THEN [h EXCEPT !.now = rs2[h.roomId]]
         ELSE [h EXCEPT !.now = [h.now EXCEPT !.participants = <<>>],
                        !.inMap = FALSE]

(* ------------------------------ index.ts ------------------------------- *)

\* io.on('connection'): a new socket; registers the handlers below.
\* Sockets are numbered in the order in which they connect.
Connection(c) ==
    /\ status[c] = "idle"
    /\ \A d \in Conns : d < c => status[d] # "idle"
    /\ status' = [status EXCEPT ![c] = "open"]
    /\ emitted' = <<>>
    /\ response' = NoResponse
    /\ UNCHANGED <<rooms, socketData, socketRooms, scenario>>

\* POST /api/room that answers with the room as it was before the join
PostApiRoom_StaleResponse(roomId, userId) ==
    /\ IF ~Truthy(roomId) \/ ~Truthy(userId)
       THEN /\ response' = [status |-> 400]
            /\ rooms' = rooms
       ELSE LET rs == joinRoom(rooms, roomId, userId)
                room == IF hasRoom(rooms, roomId) THEN getRoom(rooms, roomId)
                        ELSE [id |-> roomId, mode |-> "p2p", participants |-> <<>>]
            IN  /\ rooms' = rs
                /\ response' = [status |-> 200, roomId |-> room.id,
                                mode |-> room.mode,
                                participantsCount |-> Len(room.participants)]
    /\ emitted' = <<>>
    /\ scenario' = -1
    /\ UNCHANGED <<status, socketData, socketRooms>>

\* app.post('/api/room')
PostApiRoom(roomId, userId) ==
    /\ IF ~Truthy(roomId) \/ ~Truthy(userId)
       THEN /\ response' = [status |-> 400]
            /\ rooms' = rooms
       ELSE LET rs == joinRoom(rooms, roomId, userId)
                room == getRoom(rs, roomId)
            IN  /\ rooms' = rs
                /\ response' = [status |-> 200, roomId |-> room.id,
                                mode |-> room.mode,
                                participantsCount |-> Len(room.participants)]
    /\ emitted' = <<>>
    /\ scenario' = -1
    /\ UNCHANGED <<status, socketData, socketRooms>>

\* GET /api/room/:roomId that creates the room it does not find
GetApiRoom_Creates(roomId) ==
    /\ IF ~hasRoom(rooms, roomId)
       THEN /\ rooms' = mapSet(rooms, roomId,
                               [id |-> roomId, mode |-> "p2p", participants |-> <<>>])
            /\ response' = [status |-> 200, roomId |-> roomId, mode |-> "p2p",
                            participantsCount |-> 0, participants |-> <<>>]
       ELSE LET room == getRoom(rooms, roomId)
            IN  /\ rooms' = rooms
                /\ response' = [status |-> 200, roomId |-> room.id,
                                mode |-> room.mode,
                                participantsCount |-> Len(room.participants),
                                participants |-> room.participants]
    /\ emitted' = <<>>
    /\ scenario' = -1
    /\ UNCHANGED <<status, socketData, socketRooms>>

\* app.get('/api/room/:roomId')
GetApiRoom(roomId) ==
    /\ response' = IF ~hasRoom(rooms, roomId) THEN [status |-> 404]
                   ELSE LET room == getRoom(rooms, roomId)
                        IN  [status |-> 200, roomId |-> room.id,
                             mode |-> room.mode,
                             participantsCount |-> Len(room.participants),
                             participants |-> room.participants]
    /\ emitted' = <<>>
    /\ scenario' = -1
    /\ UNCHANGED <<rooms, status, socketData, socketRooms>>

(* ------------------------------ livekit.ts ----------------------------- *)

\* createAccessToken that asks for the API key only
createAccessToken_KeyOnly(e, identity, roomName) ==
    IF ~e.apiKey
    THEN [threw |-> TRUE]
    ELSE [threw |-> FALSE,
          token |-> [identity |-> identity, room |-> roomName, roomJoin |-> TRUE]]

\* createAccessToken(identity, roomName): throws unless both variables are
\* set, else a signed token for the identity with a grant to join the room
createAccessToken(e, identity, roomName) ==
    IF ~e.apiKey \/ ~e.apiSecret
    THEN [threw |-> TRUE]
    ELSE [threw |-> FALSE,
          token |-> [identity |-> identity, room |-> roomName, roomJoin |-> TRUE]]

\* app.get('/api/livekit-token')
LivekitToken(roomId, userId) ==
    /\ response' =
          IF ~Truthy(roomId) \/ ~Truthy(userId)
          THEN [status |-> 400]
          ELSE LET t == createAccessToken(env, userId, roomId)
               IN  IF t.threw THEN [status |-> 500]
                   ELSE [status |-> 200, token |-> t.token]
    /\ emitted' = <<>>
    /\ scenario' = -1
    /\ UNCHANGED <<rooms, status, socketData, socketRooms>>

\* A caller of rooms.ts keeps the Room it was handed.  getRoom, joinRoom and
\* leaveRoom all hand out the object stored in the Map, so the reference
\* kept here is also the one a preceding joinRoom or leaveRoom returned.
KeepRoom(roomId) ==
    /\ hasRoom(rooms, roomId)
    /\ held' = Kept(getRoom(rooms, roomId))
    /\ UNCHANGED <<rooms, status, socketData, socketRooms, emitted, response, scenario>>

(* ------------------------- index.ts: Socket.IO ------------------------- *)

\* join-room that never announces a mode change
joinEvents_NoModeChanged(roomId, previousMode, room, to) ==
    <<RoomUpdated(roomId, room.mode, room.participants, to)>>

\* the events the join-room handler emits after joinRoom returned room
joinEvents(roomId, previousMode, room, to) ==
    (IF Truthy(previousMode) /\ previousMode # room.mode
     THEN <<ModeChanged(roomId, previousMode, room.mode, room.participants, to)>>
     ELSE <<>>)
    \o <<RoomUpdated(roomId, room.mode, room.participants, to)>>

\* join-room that announces with socket.to(roomId) instead of io.to(roomId)
JoinRoomHandler_SocketTo(c, roomId, userId) ==
    /\ status[c] = "open"
    /\ socketRooms' = [socketRooms EXCEPT ![c] = @ \cup {roomId}]
    /\ socketData' = [socketData EXCEPT ![c] = [roomId |-> roomId, userId |-> userId]]
    /\ LET previousMode == IF hasRoom(rooms, roomId) THEN getRoom(rooms, roomId).mode
                           ELSE Undefined
           rs == joinRoom(rooms, roomId, userId)
       IN  /\ rooms' = rs
           /\ emitted' = joinEvents(roomId, previousMode, getRoom(rs, roomId),
                                    ioTo(status, socketRooms', roomId) \ {c})
    /\ response' = NoResponse
    /\ scenario' = Advance("join-room", roomId, userId)
    /\ UNCHANGED status

\* join-room that announces the room as it read it before joinRoom ran
JoinRoomHandler_StaleRoom(c, roomId, userId) ==
    /\ status[c] = "open"
    /\ socketRooms' = [socketRooms EXCEPT ![c] = @ \cup {roomId}]
    /\ socketData' = [socketData EXCEPT ![c] = [roomId |-> roomId, userId |-> userId]]
    /\ LET previousMode == IF hasRoom(rooms, roomId) THEN getRoom(rooms, roomId).mode
                           ELSE Undefined
           before == IF hasRoom(rooms, roomId) THEN getRoom(rooms, roomId)
                     ELSE [id |-> roomId, mode |-> "p2p", participants |-> <<>>]
           rs == joinRoom(rooms, roomId, userId)
       IN  /\ rooms' = rs
           /\ emitted' = joinEvents(roomId, previousMode, before,
                                    ioTo(status, socketRooms', roomId))
    /\ response' = NoResponse
    /\ scenario' = Advance("join-room", roomId, userId)
    /\ UNCHANGED status

\* socket.on('join-room')
JoinRoomHandler(c, roomId, userId) ==
    /\ status[c] = "open"
    /\ socketRooms' = [socketRooms EXCEPT ![c] = @ \cup {roomId}]
    /\ socketData' = [socketData EXCEPT ![c] = [roomId |-> roomId, userId |-> userId]]
    /\ LET previousMode == IF hasRoom(rooms, roomId) THEN getRoom(rooms, roomId).mode
                           ELSE Undefined
           rs == joinRoom(rooms, roomId, userId)
       IN  /\ rooms' = rs
           /\ emitted' = joinEvents(roomId, previousMode, getRoom(rs, roomId),
                                    ioTo(status, socketRooms', roomId))
    /\ response' = NoResponse
    /\ scenario' = Advance("join-room", roomId, userId)
    /\ UNCHANGED status

\* a forwarding handler that still runs for a socket that has disconnected
Forward_AfterClose(type, c, roomId, from, payload) ==
    /\ status[c] # "idle"
    /\ emitted' = <<Relayed(type, from, payload, socketTo(status, socketRooms, c, roomId))>>
    /\ response' = NoResponse
    /\ scenario' = -1
    /\ UNCHANGED <<rooms, status, socketData, socketRooms>>

\* the three forwarding handlers share one body: socket.to(roomId).emit(type, ...)
Forward(type, c, roomId, from, payload) ==
    /\ status[c] = "open"
    /\ emitted' = <<Relayed(type, from, payload, socketTo(status, socketRooms, c, roomId))>>
    /\ response' = NoResponse
    /\ scenario' = -1
    /\ UNCHANGED <<rooms, status, socketData, socketRooms>>

\* socket.on('webrtc-offer')
WebrtcOffer(c, roomId, from, offer) == Forward("webrtc-offer", c, roomId, from, offer)

\* socket.on('webrtc-answer')
WebrtcAnswer(c, roomId, from, answer) == Forward("webrtc-answer", c, roomId, from, answer)

\* socket.on('webrtc-ice-candidate')
WebrtcIceCandidate(c, roomId, from, candidate) ==
    Forward("webrtc-ice-candidate", c, roomId, from, candidate)

\* disconnect that announces the new room state before the mode change
leaveEvents_UpdatedFirst(roomId, previousMode, res, to) ==
    LET room == IF res.null THEN [mode |-> "p2p", participants |-> <<>>]
                ELSE getRoom(res.rooms, roomId)
    IN  <<RoomUpdated(roomId, room.mode, room.participants, to)>>
        \o (IF ~res.null /\ Truthy(previousMode) /\ previousMode # room.mode
            THEN <<ModeChanged(roomId, previousMode, room.mode, room.participants, to)>>
            ELSE <<>>)

\* disconnect that announces nothing when leaveRoom returned null
leaveEvents_SilentWhenNull(roomId, previousMode, res, to) ==
    IF res.null THEN <<>>
    ELSE LET room == getRoom(res.rooms, roomId)
         IN  (IF Truthy(previousMode) /\ previousMode # room.mode
              THEN <<ModeChanged(roomId, previousMode, room.mode, room.participants, to)>>
              ELSE <<>>)
             \o <<RoomUpdated(roomId, room.mode, room.participants, to)>>

\* the events the disconnect handler emits after leaveRoom returned res
\* (room?.mode ?? 'p2p', room?.participants ?? [])
leaveEvents(roomId, previousMode, res, to) ==
    LET room == IF res.null THEN [mode |-> "p2p", participants |-> <<>>]
                ELSE getRoom(res.rooms, roomId)
    IN  (IF ~res.null /\ Truthy(previousMode) /\ previousMode # room.mode
         THEN <<ModeChanged(roomId, previousMode, room.mode, room.participants, to)>>
         ELSE <<>>)
        \o <<RoomUpdated(roomId, room.mode, room.participants, to)>>

\* socket.on('disconnect'): Socket.IO has already removed the socket from
\* all of its rooms when the handler runs
Disconnect(c) ==
    /\ status[c] = "open"
    /\ status' = [status EXCEPT ![c] = "closed"]
    /\ socketRooms' = [socketRooms EXCEPT ![c] = {}]
    /\ LET roomId == socketData[c].roomId
           userId == socketData[c].userId
       IN  IF Truthy(roomId) /\ Truthy(userId)
           THEN LET previousMode == IF hasRoom(rooms, roomId)
                                    THEN getRoom(rooms, roomId).mode ELSE Undefined
                    res == leaveRoom(rooms, roomId, userId)
                IN  /\ rooms' = res.rooms
                    /\ emitted' = leaveEvents(roomId, previousMode, res,
                                              ioTo(status', socketRooms', roomId))
                    /\ scenario' = Advance("disconnect", roomId, userId)
           ELSE /\ rooms' = rooms
                /\ emitted' = <<>>
                /\ scenario' = -1
    /\ response' = NoResponse
    /\ UNCHANGED socketData

(* ----------------- P2PCall.tsx: the RTCPeerConnection ------------------ *)

\* The browser's RTCPeerConnection as P2PCall uses it.  Every asynchronous
\* method (createOffer, createAnswer, setLocalDescription,
\* setRemoteDescription, addIceCandidate) is put on the connection's
\* operations chain when it is called; the operations of a chain take effect
\* one at a time in the order of the calls, each in a later task, and the
\* code awaiting one resumes in that task.

\* the value of a description attribute that is null
Null == [type |-> "null"]

\* session descriptions and candidates: by is the identity that made it, id
\* names it, re is the id of the offer an answer answers
OfferOf(by, id) == [type |-> "offer", by |-> by, id |-> id, re |-> ""]
AnswerOf(by, re) == [type |-> "answer", by |-> by, id |-> "answer", re |-> re]
CandidateOf(by, id) == [type |-> "candidate", by |-> by, id |-> id]
Rollback == [type |-> "rollback"]

\* pc.remoteDescription
remoteDescription(pc) ==
    IF pc.pendingRemoteDescription # Null THEN pc.pendingRemoteDescription
    ELSE pc.currentRemoteDescription

\* the outcome of an operation that rejects
Rejected(pc) == [ok |-> FALSE, pc |-> pc, value |-> Null]

\* the outcome of an operation that resolves
Resolved(pc, value) == [ok |-> TRUE, pc |-> pc, value |-> value]

\* pc.createOffer()
createOffer(pc, username) == Resolved(pc, OfferOf(username, "own"))

\* pc.createAnswer(): needs a remote offer to answer
createAnswer(pc, username) ==
    IF pc.signalingState = "have-remote-offer"
    THEN Resolved(pc, AnswerOf(username, pc.pendingRemoteDescription.id))
    ELSE Rejected(pc)

\* the pending descriptions are dropped and the connection is stable again
rolledBack(pc) ==
    [pc EXCEPT !.signalingState = "stable",
               !.pendingLocalDescription = Null,
               !.pendingRemoteDescription = Null]

\* pc.setLocalDescription(description)
setLocalDescription(pc, d) ==
    CASE d.type = "rollback" ->
           IF pc.signalingState = "stable" THEN Rejected(pc)
           ELSE Resolved(rolledBack(pc), Null)
      [] d.type = "offer" ->
           IF pc.signalingState \in {"stable", "have-local-offer"}
           THEN Resolved([pc EXCEPT !.signalingState = "have-local-offer",
                                    !.pendingLocalDescription = d], Null)
           ELSE Rejected(pc)
      [] d.type = "answer" ->
           IF pc.signalingState = "have-remote-offer"
           THEN Resolved([pc EXCEPT !.signalingState = "stable",
                                    !.currentLocalDescription = d,
                                    !.currentRemoteDescription = pc.pendingRemoteDescription,
                                    !.pendingLocalDescription = Null,
                                    !.pendingRemoteDescription = Null], Null)
           ELSE Rejected(pc)

\* pc.setRemoteDescription(description); a remote offer that meets a pending
\* local offer rolls the local offer back first
setRemoteDescription(pc, d) ==
    CASE d.type = "offer" ->
           Resolved([rolledBack(pc) EXCEPT !.signalingState = "have-remote-offer",
                                           !.pendingRemoteDescription = d], Null)
      [] d.type = "answer" ->
           IF pc.signalingState = "have-local-offer"
           THEN Resolved([pc EXCEPT !.signalingState = "stable",
                                    !.currentRemoteDescription = d,
                                    !.currentLocalDescription = pc.pendingLocalDescription,
                                    !.pendingLocalDescription = Null,
                                    !.pendingRemoteDescription = Null], Null)
           ELSE Rejected(pc)

\* pc.addIceCandidate(candidate): needs a remote description
addIceCandidate(pc, candidate) ==
    IF remoteDescription(pc) = Null THEN Rejected(pc)
    ELSE Resolved([pc EXCEPT !.added = Append(pc.added, candidate)], Null)

\* an operation on the chain: the method, its argument, where the caller
\* awaits it (at) and the offer or answer the caller is handling (msg)
Operation(name, arg, at, msg) == [name |-> name, arg |-> arg, at |-> at, msg |-> msg]

\* calling a method: the operation joins the chain
chained(pc, name, arg, at, msg) ==
    [pc EXCEPT !.chain = Append(pc.chain, Operation(name, arg, at, msg))]

\* what an operation does when its turn comes
perform(pc, op, username) ==
    CASE op.name = "createOffer" -> createOffer(pc, username)
      [] op.name = "createAnswer" -> createAnswer(pc, username)
      [] op.name = "setLocalDescription" -> setLocalDescription(pc, op.arg)
      [] op.name = "setRemoteDescription" -> setRemoteDescription(pc, op.arg)
      [] op.name = "addIceCandidate" -> addIceCandidate(pc, op.arg)

(* ------------------------ P2PCall.tsx: the component ------------------- *)

\* the usernames of the mounted P2PCall components
Peers == {"a"}

\* number of negotiation messages delivered to a component
MaxDeliveries == 3

\* participants.length of a room-updated event or of the room fetched on mount
Counts == {1, 2}

\* <<from, offer>>, <<from, answer>>, <<from, candidate>> of the messages the
\* relay delivers; "a" is the component's own identity
OfferInputs == {<<"b", OfferOf("b", "o1")>>, <<"b", OfferOf("b", "o2")>>,
                <<"a", OfferOf("a", "own")>>}
AnswerInputs == {<<"b", AnswerOf("b", "own")>>, <<"a", AnswerOf("a", "o1")>>}
CandidateInputs == {<<"b", CandidateOf("b", "c1")>>, <<"b", CandidateOf("b", "c2")>>,
                    <<"a", CandidateOf("a", "c3")>>}

\* a component after initializeMedia: the RTCPeerConnection is new, the
\* signaling handlers are registered, the room state has been requested
Mounted ==
    [signalingState |-> "stable",
     pendingLocalDescription |-> Null, currentLocalDescription |-> Null,
     pendingRemoteDescription |-> Null, currentRemoteDescription |-> Null,
     chain |-> <<>>,              \* the operations chain
     added |-> <<>>,              \* candidates addIceCandidate has applied
     isInitiatorRef |-> FALSE,
     pendingCandidatesRef |-> <<>>,
     timer |-> "none",            \* the setTimeout that is pending, if any
     fetch |-> "pending",         \* the fetch of checkRoomStateAndInitiate
     sent |-> <<>>,               \* messages emitted on the socket
     received |-> <<>>,           \* candidates of others, in receipt order
     queued |-> {},               \* candidates that were put on the queue
     heard |-> {}]                \* types of the offers and answers of
                                  \* others that the handlers have taken

\* socket.emit(type, {roomId, from: username, ...})
emit(pc, type, username, payload) ==
    [pc EXCEPT !.sent = Append(pc.sent, [type |-> type, from |-> username,
                                         payload |-> payload])]

\* the while loop over pendingCandidatesRef of the offer and answer
\* handlers, up to its next await: the head of the queue is shifted and
\* added, or the loop is over and the handler goes on (after)
drain(pc, at, msg, after) ==
    IF pc.pendingCandidatesRef # <<>>
    THEN chained([pc EXCEPT !.pendingCandidatesRef = Tail(pc.pendingCandidatesRef)],
                 "addIceCandidate", Head(pc.pendingCandidatesRef), at, msg)
    ELSE after

\* the continuations with an offer handler that stops after its rollback
resume_StopAfterRollback(pc, op, value, username) ==
    CASE op.at = "createOffer:213" ->
           chained(pc, "setLocalDescription", value, "createOffer:214", Null)
      [] op.at = "createOffer:214" ->
           emit(pc, "webrtc-offer", username, op.arg)
      [] op.at = "offer:243" -> pc
      [] op.at \in {"offer:246", "offer:254"} ->
           drain(pc, "offer:254", op.msg,
                 chained(pc, "createAnswer", Null, "offer:258", op.msg))
      [] op.at = "offer:258" ->
           chained(pc, "setLocalDescription", value, "offer:259", op.msg)
      [] op.at = "offer:259" ->
           emit(pc, "webrtc-answer", username, op.arg)
      [] op.at \in {"answer:277", "answer:285"} ->
           drain(pc, "answer:285", op.msg, pc)
      [] op.at = "candidate:301" -> pc

\* the continuations with an answer handler that leaves the queue alone
resume_AnswerNoDrain(pc, op, value, username) ==
    CASE op.at = "createOffer:213" ->
           chained(pc, "setLocalDescription", value, "createOffer:214", Null)
      [] op.at = "createOffer:214" ->
           emit(pc, "webrtc-offer", username, op.arg)
      [] op.at = "offer:243" ->
           chained(pc, "setRemoteDescription", op.msg, "offer:246", op.msg)
      [] op.at \in {"offer:246", "offer:254"} ->
           drain(pc, "offer:254", op.msg,
                 chained(pc, "createAnswer", Null, "offer:258", op.msg))
      [] op.at = "offer:258" ->
           chained(pc, "setLocalDescription", value, "offer:259", op.msg)
      [] op.at = "offer:259" ->
           emit(pc, "webrtc-answer", username, op.arg)
      [] op.at \in {"answer:277", "answer:285"} -> pc
      [] op.at = "candidate:301" -> pc

\* the code that runs when the awaited operation op has resolved with value
resume(pc, op, value, username) ==
    CASE op.at = "createOffer:213" ->
           chained(pc, "setLocalDescription", value, "createOffer:214", Null)
      [] op.at = "createOffer:214" ->
           emit(pc, "webrtc-offer", username, op.arg)
      [] op.at = "offer:243" ->
           chained(pc, "setRemoteDescription", op.msg, "offer:246", op.msg)
      [] op.at \in {"offer:246", "offer:254"} ->
           drain(pc, "offer:254", op.msg,
                 chained(pc, "createAnswer", Null, "offer:258", op.msg))
      [] op.at = "offer:258" ->
           chained(pc, "setLocalDescription", value, "offer:259", op.msg)
      [] op.at = "offer:259" ->
           emit(pc, "webrtc-answer", username, op.arg)
      [] op.at \in {"answer:277", "answer:285"} ->
           drain(pc, "answer:285", op.msg, pc)
      [] op.at = "candidate:301" -> pc

\* the first operation of the chain takes effect; the handler awaiting it
\* resumes, or lands in its catch block when the operation rejects
settle(pc, username) ==
    LET op == Head(pc.chain)
        r == perform([pc EXCEPT !.chain = Tail(pc.chain)], op, username)
    IN  IF r.ok THEN resume(r.pc, op, r.value, username) ELSE r.pc

\* createOffer(pc) up to its first await
startOffer(pc) == chained(pc, "createOffer", Null, "createOffer:213", Null)

\* socket.on('webrtc-offer') that marks the peer before it looks at from
onWebrtcOffer_FlagFirst(pc, username, from, offer) ==
    LET p1 == [pc EXCEPT !.isInitiatorRef = TRUE,
                         !.heard = @ \cup {"webrtc-offer"}]
        isStable ==
            \/ pc.signalingState = "stable"
            \/ /\ pc.signalingState = "have-local-offer"
               /\ pc.currentRemoteDescription # Null
    IN  IF from = username THEN [pc EXCEPT !.isInitiatorRef = TRUE]
        ELSE IF ~isStable
             THEN chained(p1, "setLocalDescription", Rollback, "offer:243", offer)
             ELSE chained(p1, "setRemoteDescription", offer, "offer:246", offer)

\* socket.on('webrtc-offer') up to its first await
onWebrtcOffer(pc, username, from, offer) ==
    IF from = username THEN pc
    ELSE LET p1 == [pc EXCEPT !.isInitiatorRef = TRUE,
                              !.heard = @ \cup {"webrtc-offer"}]
             isStable ==
                 \/ pc.signalingState = "stable"
                 \/ /\ pc.signalingState = "have-local-offer"
                    /\ pc.currentRemoteDescription # Null
         IN  IF ~isStable
             THEN chained(p1, "setLocalDescription", Rollback, "offer:243", offer)
             ELSE chained(p1, "setRemoteDescription", offer, "offer:246", offer)

\* socket.on('webrtc-answer') up to its first await
onWebrtcAnswer(pc, username, from, answer) ==
    IF from = username THEN pc
    ELSE chained([pc EXCEPT !.heard = @ \cup {"webrtc-answer"}],
                 "setRemoteDescription", answer, "answer:277", answer)

\* socket.on('webrtc-ice-candidate') up to its await
onWebrtcIceCandidate(pc, username, from, candidate) ==
    IF from = username THEN pc
    ELSE LET p1 == [pc EXCEPT !.received = Append(pc.received, candidate)]
         IN  IF remoteDescription(pc) # Null
             THEN chained(p1, "addIceCandidate", candidate, "candidate:301", Null)
             ELSE [p1 EXCEPT !.pendingCandidatesRef = Append(pc.pendingCandidatesRef, candidate),
                             !.queued = pc.queued \cup {candidate}]

\* socket.on('room-updated') that does not look at isInitiatorRef
onRoomUpdated_NoFlagCheck(pc, length) ==
    IF length = 2
    THEN [pc EXCEPT !.isInitiatorRef = TRUE, !.timer = "room-updated"]
    ELSE pc

\* socket.on('room-updated') of P2PCall
onRoomUpdated(pc, length) ==
    IF length = 2 /\ ~pc.isInitiatorRef
    THEN [pc EXCEPT !.isInitiatorRef = TRUE, !.timer = "room-updated"]
    ELSE pc

\* checkRoomStateAndInitiate once the room has been fetched
onRoomState(pc, length) ==
    IF length = 2 /\ ~pc.isInitiatorRef
    THEN [pc EXCEPT !.fetch = "done", !.isInitiatorRef = TRUE, !.timer = "mount"]
    ELSE [pc EXCEPT !.fetch = "done"]

\* the callback of the pending setTimeout
onTimeout(pc) ==
    LET p1 == [pc EXCEPT !.timer = "none"]
    IN  IF pc.timer = "room-updated" \/ pc.signalingState = "stable"
        THEN startOffer(p1)
        ELSE p1

\* the state of the server, which a component does not touch
serverVars == <<rooms, status, socketData, socketRooms, emitted, response,
                scenario, env, held, clients>>

\* a room-updated event reaches the component
OnRoomUpdated(p, length) ==
    /\ peers' = [peers EXCEPT ![p] = onRoomUpdated(@, length)]
    /\ UNCHANGED serverVars

\* the response to the fetch on mount reaches the component
OnRoomState(p, length) ==
    /\ peers[p].fetch = "pending"
    /\ peers' = [peers EXCEPT ![p] = onRoomState(@, length)]
    /\ UNCHANGED serverVars

\* the pending timer of the component fires
Timeout(p) ==
    /\ peers[p].timer # "none"
    /\ peers' = [peers EXCEPT ![p] = onTimeout(@)]
    /\ UNCHANGED serverVars

\* a webrtc-offer reaches the component
OnWebrtcOffer(p, from, offer) ==
    /\ peers' = [peers EXCEPT ![p] = onWebrtcOffer(@, p, from, offer)]
    /\ UNCHANGED serverVars

\* a webrtc-answer reaches the component
OnWebrtcAnswer(p, from, answer) ==
    /\ peers' = [peers EXCEPT ![p] = onWebrtcAnswer(@, p, from, answer)]
    /\ UNCHANGED serverVars

\* a webrtc-ice-candidate reaches the component; a candidate is sent once
OnWebrtcIceCandidate(p, from, candidate) ==
    /\ \A i \in 1..Len(peers[p].received) : peers[p].received[i] # candidate
    /\ peers' = [peers EXCEPT ![p] = onWebrtcIceCandidate(@, p, from, candidate)]
    /\ UNCHANGED serverVars

\* the next operation of the component's RTCPeerConnection takes effect
Settle(p) ==
    /\ peers[p].chain # <<>>
    /\ peers' = [peers EXCEPT ![p] = settle(@, p)]
    /\ UNCHANGED serverVars

(* ------------------------ Call.tsx: the page --------------------------- *)

\* the Call component of a socket as it mounts, and the connection of its
\* socket: currentMode is 'p2p' unless the navigation state says otherwise,
\* the listeners of Call are registered, no message is on its way
Call ==
    [currentMode |-> "p2p",
     roomUpdated |-> TRUE,    \* socket.on('room-updated') of Call is registered
     fetched |-> FALSE,       \* the fetch of the room after 1 s has returned
     up |-> <<>>,             \* messages the socket has sent, not yet handled
     down |-> <<>>,           \* events emitted to the socket, not yet delivered
     got |-> <<>>]            \* negotiation messages delivered to the socket

\* an emit that puts each event in front of what is already on its way
post_Front(cl, es) ==
    [c \in Conns |->
        [cl[c] EXCEPT !.down = SelectSeq(es, LAMBDA e : c \in e.to) \o @]]

\* io.to(...).emit / socket.to(...).emit: each event goes to the connection
\* of every socket it is addressed to, behind what is already on its way
post(cl, es) ==
    [c \in Conns |->
        [cl[c] EXCEPT !.down = @ \o SelectSeq(es, LAMBDA e : c \in e.to)]]

\* setCurrentMode(mode): when the mode goes from p2p to sfu, Call renders
\* SFUCall in place of P2PCall, and the cleanup of P2PCall runs
\* socket.off('room-updated'), which takes every listener of that event off
\* the shared socket, the one of Call included
setCurrentMode(cl, mode) ==
    [cl EXCEPT !.currentMode = mode,
               !.roomUpdated = IF cl.currentMode = "p2p" /\ mode = "sfu"
                               THEN FALSE ELSE @]

\* the listeners of Call for an event e
onEvent(cl, e) ==
    CASE e.type = "room-updated" ->
           IF cl.roomUpdated THEN setCurrentMode(cl, e.mode) ELSE cl
      [] e.type = "mode-changed" -> setCurrentMode(cl, e.newMode)
      [] OTHER -> [cl EXCEPT !.got = Append(@, e)]

\* what is not the Call components
callFrame == <<rooms, status, socketData, socketRooms, emitted, response,
               scenario, env, held, peers, nops>>

\* the next event on its way to socket c reaches it
CallDeliver(c) ==
    /\ status[c] = "open"
    /\ clients[c].down # <<>>
    /\ clients' = [clients EXCEPT ![c] =
                      onEvent([@ EXCEPT !.down = Tail(@)], Head(clients[c].down))]
    /\ UNCHANGED callFrame

\* the fallback of Call: the room fetched 1 s after the mount
CallFetch(c) ==
    /\ status[c] = "open"
    /\ ~clients[c].fetched
    /\ LET roomId == socketData[c].roomId
           cl == [clients[c] EXCEPT !.fetched = TRUE]
       IN  clients' = [clients EXCEPT ![c] =
                          IF hasRoom(rooms, roomId)
                             /\ Len(getRoom(rooms, roomId).participants) > 0
                          THEN setCurrentMode(cl, getRoom(rooms, roomId).mode)
                          ELSE cl]
    /\ UNCHANGED callFrame

(* ------------------------------ Init ----------------------------------- *)

\* the server as it starts with the environment e, and the components ps
InitOf(e, ps) ==
    /\ env = e
    /\ held = NoRef
    /\ peers = ps
    /\ clients = [c \in Conns |-> Call]
    /\ rooms = <<>>
    /\ status = [c \in Conns |-> "idle"]
    /\ socketData = [c \in Conns |-> [roomId |-> Undefined, userId |-> Undefined]]
    /\ socketRooms = [c \in Conns |-> {}]
    /\ emitted = <<>>
    /\ response = NoResponse
    /\ scenario = 0
    /\ nops = 0

InitWith(e) == InitOf(e, [p \in Peers |-> Mounted])

\* a server started with both LiveKit variables set
Init == InitWith(Configured)

\* a server started with any of the LiveKit variables set or missing
ApiInit == \E e \in Envs : InitWith(e)

\* a component to which the two candidates of "b" were delivered before
\* any description: both are on the queue
Queued2 ==
    [Mounted EXCEPT
        !.pendingCandidatesRef = <<CandidateOf("b", "c1"), CandidateOf("b", "c2")>>,
        !.received = <<CandidateOf("b", "c1"), CandidateOf("b", "c2")>>,
        !.queued = {CandidateOf("b", "c1"), CandidateOf("b", "c2")}]

DrainInit == InitOf(Configured, [p \in Peers |-> Queued2])

(* --------------------------- specifications ---------------------------- *)

\* One room, any number of invocations: sockets connect, join room R1 under
\* one of the identities and disconnect, and the REST endpoints are called,
\* in any order.
Next ==
    \/ (\E c \in Conns : Connection(c)) /\ UNCHANGED <<nops, env, held, peers, clients>>
    \/ (\E in \in RestInputs : PostApiRoom(in[1], in[2])) /\ UNCHANGED <<nops, env, held, peers, clients>>
    \/ (\E r \in RoomIds : GetApiRoom(r)) /\ UNCHANGED <<nops, env, held, peers, clients>>
    \/ (\E c \in Conns, u \in UserIds : JoinRoomHandler(c, "R1", u))
          /\ UNCHANGED <<nops, env, held, peers, clients>>
    \/ (\E c \in Conns : Disconnect(c)) /\ UNCHANGED <<nops, env, held, peers, clients>>

Spec == Init /\ [][Next]_vars

\* Two rooms and forwarding, a bounded number of joins and disconnects:
\* sockets connect, join, disconnect and send negotiation messages, in any order.
RelayNext ==
    \/ (\E c \in Conns : Connection(c)) /\ UNCHANGED <<nops, env, held, peers, clients>>
    \/ (\E c \in Conns, in \in JoinInputs : JoinRoomHandler(c, in[1], in[2]))
          /\ nops < MaxRelayOps /\ nops' = nops + 1 /\ UNCHANGED <<env, held, peers, clients>>
    \/ (\E c \in Conns : Disconnect(c))
          /\ nops < MaxRelayOps /\ nops' = nops + 1 /\ UNCHANGED <<env, held, peers, clients>>
    \/ (\E c \in Conns, r \in RoomIds, m \in RelayInputs : WebrtcOffer(c, r, m[1], m[2]))
          /\ UNCHANGED <<nops, env, held, peers, clients>>
    \/ (\E c \in Conns, r \in RoomIds, m \in RelayInputs : WebrtcAnswer(c, r, m[1], m[2]))
          /\ UNCHANGED <<nops, env, held, peers, clients>>
    \/ (\E c \in Conns, r \in RoomIds, m \in RelayInputs : WebrtcIceCandidate(c, r, m[1], m[2]))
          /\ UNCHANGED <<nops, env, held, peers, clients>>

SpecRelay == Init /\ [][RelayNext]_vars

\* One room that sockets join and leave, a bounded number of mode changes:
\* nops counts the steps that changed the mode of room R1.
flips(rs, rs2) ==
    IF hasRoom(rs, "R1") /\ hasRoom(rs2, "R1")
       /\ getRoom(rs, "R1").mode # getRoom(rs2, "R1").mode
    THEN 1 ELSE 0

FlapNext ==
    \/ (\E c \in Conns : Connection(c)) /\ UNCHANGED <<nops, env, held, peers, clients>>
    \/ (\E c \in Conns, u \in UserIds : JoinRoomHandler(c, "R1", u))
          /\ nops' = nops + flips(rooms, rooms') /\ nops' <= MaxFlips
          /\ UNCHANGED <<env, held, peers, clients>>
    \/ (\E c \in Conns : Disconnect(c))
          /\ nops' = nops + flips(rooms, rooms') /\ nops' <= MaxFlips
          /\ UNCHANGED <<env, held, peers, clients>>

SpecFlap == Init /\ [][FlapNext]_vars

\* Two rooms that sockets join and leave: nops counts the disconnects that
\* call leaveRoom for a room that is not there or for an identity that is
\* not among its participants (another socket bound to the same identity
\* has left before).
stray(rs, data) ==
    IF /\ Truthy(data.roomId) /\ Truthy(data.userId)
       /\ (hasRoom(rs, data.roomId)
              => ~includes(getRoom(rs, data.roomId).participants, data.userId))
    THEN 1 ELSE 0

LeaveNext ==
    \/ (\E c \in Conns : Connection(c)) /\ UNCHANGED <<nops, env, held, peers, clients>>
    \/ (\E c \in Conns, in \in JoinInputs \ {<<"R1", "c">>} :
             JoinRoomHandler(c, in[1], in[2]))
          /\ UNCHANGED <<nops, env, held, peers, clients>>
    \/ (\E c \in Conns : Disconnect(c) /\ nops' = nops + stray(rooms, socketData[c]))
          /\ nops' <= MaxStrays /\ UNCHANGED <<env, held, peers, clients>>

SpecLeave == Init /\ [][LeaveNext]_vars

\* Every endpoint, with present and with empty fields, on a server with any
\* LiveKit configuration, a bounded number of invocations; a caller of
\* rooms.ts may keep a Room it was handed.
ApiNext ==
    \/ (\E c \in Conns : Connection(c)) /\ UNCHANGED <<nops, env, held, peers, clients>>
    \/ (\E in \in ApiInputs : PostApiRoom(in[1], in[2]))
          /\ nops < MaxApiOps /\ nops' = nops + 1
          /\ held' = alias(held, rooms, rooms') /\ UNCHANGED <<env, peers, clients>>
    \/ (\E r \in RoomIds : GetApiRoom(r)) /\ UNCHANGED <<nops, env, held, peers, clients>>
    \/ (\E in \in ApiInputs : LivekitToken(in[1], in[2])) /\ UNCHANGED <<nops, env, held, peers, clients>>
    \/ (\E c \in Conns, in \in ApiInputs : JoinRoomHandler(c, in[1], in[2]))
          /\ nops < MaxApiOps /\ nops' = nops + 1
          /\ held' = alias(held, rooms, rooms') /\ UNCHANGED <<env, peers, clients>>
    \/ (\E c \in Conns : Disconnect(c))
          /\ nops < MaxApiOps /\ nops' = nops + 1
          /\ held' = alias(held, rooms, rooms') /\ UNCHANGED <<env, peers, clients>>
    \/ (\E r \in RoomIds : KeepRoom(r)) /\ UNCHANGED <<nops, env, peers, clients>>

SpecApi == ApiInit /\ [][ApiNext]_vars

\* One P2PCall component: room-updated events, the room fetched on mount and
\* a bounded number of negotiation messages reach it in any order, its timer
\* fires and the operations of its RTCPeerConnection take effect.  The
\* browser lets every operation on the chain take effect eventually.
PeerNext ==
    \/ (\E p \in Peers, n \in Counts : OnRoomUpdated(p, n)) /\ UNCHANGED nops
    \/ (\E p \in Peers, n \in Counts : OnRoomState(p, n)) /\ UNCHANGED nops
    \/ (\E p \in Peers : Timeout(p)) /\ UNCHANGED nops
    \/ (\E p \in Peers, m \in OfferInputs : OnWebrtcOffer(p, m[1], m[2]))
          /\ nops < MaxDeliveries /\ nops' = nops + 1
    \/ (\E p \in Peers, m \in AnswerInputs : OnWebrtcAnswer(p, m[1], m[2]))
          /\ nops < MaxDeliveries /\ nops' = nops + 1
    \/ (\E p \in Peers, m \in CandidateInputs : OnWebrtcIceCandidate(p, m[1], m[2]))
          /\ nops < MaxDeliveries /\ nops' = nops + 1
    \/ (\E p \in Peers : Settle(p)) /\ UNCHANGED nops

SpecPeer ==
    /\ Init
    /\ [][PeerNext]_vars
    /\ WF_vars(\E p \in Peers : Settle(p) /\ UNCHANGED nops)
    /\ WF_vars(\E p \in Peers : Timeout(p) /\ UNCHANGED nops)

\* One P2PCall component that starts with two candidates on its queue: the
\* description and a third candidate of "b" reach it in any order, among
\* the other events of the component.
LateInputs == {<<"b", CandidateOf("b", "c4")>>}

DrainNext ==
    \/ (\E p \in Peers, n \in Counts : OnRoomUpdated(p, n)) /\ UNCHANGED nops
    \/ (\E p \in Peers : Timeout(p)) /\ UNCHANGED nops
    \/ (\E p \in Peers, m \in OfferInputs : OnWebrtcOffer(p, m[1], m[2]))
          /\ nops < MaxDeliveries /\ nops' = nops + 1
    \/ (\E p \in Peers, m \in AnswerInputs : OnWebrtcAnswer(p, m[1], m[2]))
          /\ nops < MaxDeliveries /\ nops' = nops + 1
    \/ (\E p \in Peers, m \in LateInputs : OnWebrtcIceCandidate(p, m[1], m[2]))
          /\ nops < MaxDeliveries /\ nops' = nops + 1
    \/ (\E p \in Peers : Settle(p)) /\ UNCHANGED nops

SpecDrain ==
    /\ DrainInit
    /\ [][DrainNext]_vars
    /\ WF_vars(\E p \in Peers : Settle(p) /\ UNCHANGED nops)
    /\ WF_vars(\E p \in Peers : Timeout(p) /\ UNCHANGED nops)

\* One room and the Call components of its sockets: a socket joins once,
\* on connect, under one of the identities; REST joins happen; the events of
\* every handler go to the connections they are addressed to and reach the
\* components one by one.
ViewNext ==
    \/ (\E c \in Conns : Connection(c)) /\ UNCHANGED <<nops, env, held, peers, clients>>
    \/ (\E c \in Conns, u \in UserIds :
             /\ socketData[c].roomId = Undefined
             /\ JoinRoomHandler(c, "R1", u))
          /\ nops < MaxViewOps /\ nops' = nops + 1
          /\ clients' = post(clients, emitted') /\ UNCHANGED <<env, held, peers>>
    \/ (\E u \in UserIds : PostApiRoom("R1", u))
          /\ nops < MaxViewOps /\ nops' = nops + 1
          /\ clients' = post(clients, emitted') /\ UNCHANGED <<env, held, peers>>
    \/ (\E c \in Conns : Disconnect(c))
          /\ nops < MaxViewOps /\ nops' = nops + 1
          /\ clients' = post(clients, emitted') /\ UNCHANGED <<env, held, peers>>
    \/ (\E c \in Conns : CallDeliver(c))
    \/ (\E c \in Conns : CallFetch(c))

SpecView ==
    /\ Init
    /\ [][ViewNext]_vars
    /\ WF_vars(\E c \in Conns : CallDeliver(c))

\* The relay between the components of one room: sockets send negotiation
\* messages over their connections, the server handles what a connection
\* carries in the order it arrives, and the events it emits reach the
\* components of the other sockets one by one.
Negotiation == {"webrtc-offer", "webrtc-answer", "webrtc-ice-candidate"}

\* socket.emit(type, {roomId, from, ...}) of a component: the message is
\* numbered by the order of sending
CallEmit(c, type) ==
    /\ status[c] = "open"
    /\ socketData[c].roomId # Undefined
    /\ nops < MaxSends
    /\ nops' = nops + 1
    /\ clients' = [clients EXCEPT ![c].up =
                      Append(@, [type |-> type, roomId |-> socketData[c].roomId,
                                 from |-> socketData[c].userId,
                                 payload |-> <<c, nops + 1>>])]
    /\ UNCHANGED <<rooms, status, socketData, socketRooms, emitted, response,
                   scenario, env, held, peers>>

\* the server handles the next message of the connection of socket c
Handle(c) ==
    /\ clients[c].up # <<>>
    /\ LET m == Head(clients[c].up)
       IN  /\ CASE m.type = "webrtc-offer" ->
                      WebrtcOffer(c, m.roomId, m.from, m.payload)
                [] m.type = "webrtc-answer" ->
                      WebrtcAnswer(c, m.roomId, m.from, m.payload)
                [] OTHER -> WebrtcIceCandidate(c, m.roomId, m.from, m.payload)
           /\ clients' = post([clients EXCEPT ![c].up = Tail(@)], emitted')
    /\ UNCHANGED <<nops, env, held, peers>>

\* the state after sockets 1, 2 and 3 connected and joined R1 as a, b and c,
\* in this order, and the events of the three joins reached the components
Joined3 ==
    LET rs == joinRoom(joinRoom(joinRoom(<<>>, "R1", "a"), "R1", "b"), "R1", "c")
    IN  /\ env = Configured
        /\ held = NoRef
        /\ peers = [p \in Peers |-> Mounted]
        /\ clients = [c \in Conns |->
                        [Call EXCEPT !.currentMode = "sfu", !.roomUpdated = FALSE]]
        /\ rooms = rs
        /\ status = [c \in Conns |-> "open"]
        /\ socketData = [c \in Conns |->
                           [roomId |-> "R1", userId |-> <<"a", "b", "c">>[c]]]
        /\ socketRooms = [c \in Conns |-> {"R1"}]
        /\ emitted = joinEvents("R1", "p2p", getRoom(rs, "R1"), Conns)
        /\ response = NoResponse
        /\ scenario = 3

\* the sockets whose components send negotiation messages
Senders == {1, 2}

FifoInit == Joined3 /\ nops = 0

FifoNext ==
    \/ (\E c \in Senders, type \in Negotiation : CallEmit(c, type))
    \/ (\E c \in Conns : Handle(c))
    \/ (\E c \in Conns : CallDeliver(c))

SpecFifo ==
    /\ FifoInit
    /\ [][FifoNext]_vars
    /\ WF_vars(\E c \in Conns : Handle(c))
    /\ WF_vars(\E c \in Conns : CallDeliver(c))

\* Two components in one room, each behind its own socket: sockets 1 and 2
\* have joined R1 as a and b, the events of the two joins are on their way,
\* and both components are still in getUserMedia, their signaling handlers
\* not yet registered. The server relays what a component emits.
Pair == {"a", "b"}

\* the socket of a component
Sock(p) == IF p = "a" THEN 1 ELSE 2

\* a component inside initializeMedia, before setupSignaling
Mounting == [Mounted EXCEPT !.fetch = "media"]

\* the server and the connections after join-room of socket 1 (R1, a) and of
\* socket 2 (R1, b)
Joined2 ==
    LET rs1 == joinRoom(<<>>, "R1", "a")
        rs == joinRoom(rs1, "R1", "b")
        first == joinEvents("R1", Undefined, getRoom(rs1, "R1"), {1})
        second == joinEvents("R1", "p2p", getRoom(rs, "R1"), {1, 2})
    IN  /\ env = Configured
        /\ held = NoRef
        /\ clients = post(post([c \in Conns |-> Call], first), second)
        /\ rooms = rs
        /\ status = [c \in Conns |-> IF c \in {1, 2} THEN "open" ELSE "idle"]
        /\ socketData = [c \in Conns |->
                           IF c \in {1, 2}
                           THEN [roomId |-> "R1", userId |-> <<"a", "b">>[c]]
                           ELSE [roomId |-> Undefined, userId |-> Undefined]]
        /\ socketRooms = [c \in Conns |-> IF c \in {1, 2} THEN {"R1"} ELSE {}]
        /\ emitted = second
        /\ response = NoResponse
        /\ scenario = 2

PairInit == Joined2 /\ peers = [p \in Pair |-> Mounting] /\ nops = 0

pairFrame == <<rooms, status, socketData, socketRooms, emitted, response,
               scenario, env, held, nops>>

\* getUserMedia has resolved: setupSignaling registers the handlers and
\* checkRoomStateAndInitiate requests the room
Register(p) ==
    /\ peers[p].fetch = "media"
    /\ peers' = [peers EXCEPT ![p].fetch = "pending"]
    /\ UNCHANGED <<pairFrame, clients>>

\* the handlers of P2PCall for an event e; none before they are registered
onSignal(pc, username, e) ==
    IF pc.fetch = "media" THEN pc
    ELSE CASE e.type = "room-updated" -> onRoomUpdated(pc, Len(e.participants))
           [] e.type = "webrtc-offer" -> onWebrtcOffer(pc, username, e.from, e.payload)
           [] e.type = "webrtc-answer" -> onWebrtcAnswer(pc, username, e.from, e.payload)
           [] e.type = "webrtc-ice-candidate" ->
                 onWebrtcIceCandidate(pc, username, e.from, e.payload)
           [] OTHER -> pc

\* the next event on its way to the socket of p reaches the listeners of
\* Call and of P2PCall
PairDeliver(p) ==
    /\ clients[Sock(p)].down # <<>>
    /\ status[Sock(p)] = "open"
    /\ LET e == Head(clients[Sock(p)].down)
       IN  /\ clients' = [clients EXCEPT ![Sock(p)] =
                             onEvent([@ EXCEPT !.down = Tail(@)], e)]
           /\ peers' = [peers EXCEPT ![p] = onSignal(@, p, e)]
    /\ UNCHANGED pairFrame

\* the response to the fetch of checkRoomStateAndInitiate: the room as the
\* registry has it
PairRoomState(p) ==
    /\ hasRoom(rooms, "R1")
    /\ OnRoomState(p, Len(getRoom(rooms, "R1").participants))

\* the next operation of the RTCPeerConnection of p takes effect; what the
\* resumed handler emits goes through the forwarding handlers of the server
PairSettle(p) ==
    /\ peers[p].chain # <<>>
    /\ LET pc == settle(peers[p], p)
           new == SubSeq(pc.sent, Len(peers[p].sent) + 1, Len(pc.sent))
           to == socketTo(status, socketRooms, Sock(p), "R1")
       IN  /\ peers' = [peers EXCEPT ![p] = pc]
           /\ clients' = post(clients,
                  [i \in 1..Len(new) |->
                      Relayed(new[i].type, new[i].from, new[i].payload, to)])
    /\ UNCHANGED pairFrame

PairNext ==
    \/ (\E p \in Pair : Register(p))
    \/ (\E p \in Pair : PairDeliver(p))
    \/ (\E p \in Pair : PairRoomState(p)) /\ UNCHANGED nops
    \/ (\E p \in Pair : Timeout(p)) /\ UNCHANGED nops
    \/ (\E p \in Pair : PairSettle(p))

SpecPair ==
    /\ PairInit
    /\ [][PairNext]_vars
    /\ \A p \in Pair :
          /\ WF_vars(Register(p))
          /\ WF_vars(PairDeliver(p))
          /\ WF_vars(PairRoomState(p) /\ UNCHANGED nops)
          /\ WF_vars(Timeout(p) /\ UNCHANGED nops)
          /\ WF_vars(PairSettle(p))

(* ------------------------------ claims ---------------------------------- *)

\* the last element of a non-empty sequence
Last(s) == s[Len(s)]

\* the set of elements of a sequence
Elems(s) == {s[i] : i \in 1..Len(s)}

\* C1: after any sequence of socket joins, disconnects and REST joins, every
\* room in the registry is sfu exactly when it has at least 3 participants
\* and p2p exactly when it has at most 2.
C1_ModeIffCount ==
    \A r \in DOMAIN rooms :
        /\ rooms[r].mode \in {"p2p", "sfu"}
        /\ rooms[r].mode = "sfu" <=> Len(rooms[r].participants) >= 3
        /\ rooms[r].mode = "p2p" <=> Len(rooms[r].participants) <= 2

\* a room that grew to three participants and lost one through a disconnect
C1_Witness ==
    /\ \E c \in Conns : status[c] = "closed" /\ socketData[c].roomId = "R1"
    /\ hasRoom(rooms, "R1") /\ Len(rooms["R1"].participants) = 3

\* C2: a join (socket or REST) with an identity that is already a member
\* leaves the registry as it was, participants in the same order, and still
\* reports the current room state; joining twice equals joining once.
C2_JoinIdempotent ==
    /\ [](\A r \in RoomIds, u \in UserIds :
            joinRoom(joinRoom(rooms, r, u), r, u) = joinRoom(rooms, r, u))
    /\ [][ /\ \A c \in Conns, r \in RoomIds, u \in UserIds :
                ( /\ JoinRoomHandler(c, r, u)
                  /\ hasRoom(rooms, r)
                  /\ u \in Elems(rooms[r].participants) )
                => /\ rooms' = rooms
                   /\ Len(emitted') = 1
                   /\ emitted'[1].type = "room-updated"
                   /\ emitted'[1].mode = rooms[r].mode
                   /\ emitted'[1].participants = rooms[r].participants
           /\ \A in \in RestInputs :
                ( /\ PostApiRoom(in[1], in[2])
                  /\ hasRoom(rooms, in[1])
                  /\ in[2] \in Elems(rooms[in[1]].participants) )
                => /\ rooms' = rooms
                   /\ response'.status = 200
                   /\ response'.mode = rooms[in[1]].mode
                   /\ response'.participantsCount = Len(rooms[in[1]].participants)
         ]_vars

\* two sockets joined R1 as "a" and are both still connected, no socket has
\* left, and "a" is listed once
C2_Witness ==
    /\ \A c \in Conns : status[c] # "closed"
    /\ \E c, d \in Conns :
         /\ c # d
         /\ status[c] = "open" /\ status[d] = "open"
         /\ socketData[c] = [roomId |-> "R1", userId |-> "a"]
         /\ socketData[d] = [roomId |-> "R1", userId |-> "a"]
    /\ hasRoom(rooms, "R1") /\ rooms["R1"].participants = <<"a">>

\* C3: no room with zero participants is ever in the registry; the
\* disconnect that removes a room's last participant removes the room in the
\* same step, and GET /api/room/:roomId answers 404 for a room that is absent.
C3_NoEmptyRoom ==
    /\ [](\A r \in DOMAIN rooms : Len(rooms[r].participants) > 0)
    /\ [][ /\ \A c \in Conns :
                ( /\ Disconnect(c)
                  /\ Truthy(socketData[c].roomId) /\ Truthy(socketData[c].userId)
                  /\ hasRoom(rooms, socketData[c].roomId)
                  /\ Elems(rooms[socketData[c].roomId].participants)
                        \subseteq {socketData[c].userId} )
                => ~hasRoom(rooms', socketData[c].roomId)
           /\ \A r \in RoomIds :
                (GetApiRoom(r) /\ r \notin DOMAIN rooms) => response' = [status |-> 404]
         ]_vars

\* a socket joined, disconnected as the last participant, and a GET followed
C3_Witness ==
    /\ response = [status |-> 404]
    /\ \E c \in Conns :
         /\ status[c] = "closed"
         /\ Truthy(socketData[c].roomId)
         /\ ~hasRoom(rooms, socketData[c].roomId)
    /\ rooms = <<>>

\* the event names of a sequence of emitted events
Types(es) == [i \in 1..Len(es) |-> es[i].type]

\* the registry that holds room R1 alone, with the given mode and participants
OnlyR1(mode, ps) ==
    [x \in {"R1"} |-> [id |-> "R1", mode |-> mode, participants |-> ps]]

\* C4: from an empty registry, join(R1,a), join(R1,b), join(R1,c), leave(c),
\* leave(a), leave(b) through the socket handlers give {p2p,[a]}; {p2p,[a,b]}
\* with no mode-changed; {sfu,[a,b,c]} with one mode-changed(p2p to sfu);
\* {p2p,[a,b]} with one mode-changed(sfu to p2p); and the room is deleted
\* by the last leave.
C4_Walkthrough ==
    [][ /\ (scenario = 0 /\ scenario' = 1)
             => /\ rooms' = OnlyR1("p2p", <<"a">>)
                /\ Types(emitted') = <<"room-updated">>
                /\ emitted'[1].mode = "p2p" /\ emitted'[1].participants = <<"a">>
        /\ (scenario = 1 /\ scenario' = 2)
             => /\ rooms' = OnlyR1("p2p", <<"a", "b">>)
                /\ Types(emitted') = <<"room-updated">>
                /\ emitted'[1].mode = "p2p" /\ emitted'[1].participants = <<"a", "b">>
        /\ (scenario = 2 /\ scenario' = 3)
             => /\ rooms' = OnlyR1("sfu", <<"a", "b", "c">>)
                /\ Types(emitted') = <<"mode-changed", "room-updated">>
                /\ emitted'[1].oldMode = "p2p" /\ emitted'[1].newMode = "sfu"
                /\ emitted'[2].mode = "sfu"
                /\ emitted'[2].participants = <<"a", "b", "c">>
        /\ (scenario = 3 /\ scenario' = 4)
             => /\ rooms' = OnlyR1("p2p", <<"a", "b">>)
                /\ Types(emitted') = <<"mode-changed", "room-updated">>
                /\ emitted'[1].oldMode = "sfu" /\ emitted'[1].newMode = "p2p"
                /\ emitted'[2].mode = "p2p"
                /\ emitted'[2].participants = <<"a", "b">>
        /\ (scenario = 4 /\ scenario' = 5)
             => /\ rooms' = OnlyR1("p2p", <<"b">>)
                /\ Types(emitted') = <<"room-updated">>
        /\ (scenario = 5 /\ scenario' = 6)
             => rooms' = <<>>
      ]_vars

\* the six steps were taken
C4_Witness == scenario = 6

\* position of an identity in a sequence that lists it once
Pos(s, x) == CHOOSE i \in 1..Len(s) : s[i] = x

\* C5: a room's participants never list an identity twice; identities stay
\* in the order of their joins: a step keeps the relative order of those
\* that remain and puts a newly joined one last; a disconnect removes only
\* the identity of the leaving socket.
C5_UniqueInJoinOrder ==
    /\ [](\A r \in DOMAIN rooms :
            \A i, j \in 1..Len(rooms[r].participants) :
                i # j => rooms[r].participants[i] # rooms[r].participants[j])
    /\ [][ /\ \A r \in DOMAIN rooms' :
                IF r \in DOMAIN rooms
                THEN LET old == rooms[r].participants
                         new == rooms'[r].participants
                     IN  \A i, j \in 1..Len(new) :
                            /\ (i < j /\ new[i] \in Elems(old) /\ new[j] \in Elems(old))
                                  => Pos(old, new[i]) < Pos(old, new[j])
                            /\ (new[i] \notin Elems(old) /\ new[j] \in Elems(old))
                                  => j < i
                ELSE Len(rooms'[r].participants) = 1
           /\ \A c \in Conns :
                ( /\ Disconnect(c)
                  /\ Truthy(socketData[c].roomId) /\ Truthy(socketData[c].userId)
                  /\ hasRoom(rooms, socketData[c].roomId) )
                => LET r == socketData[c].roomId
                       old == Elems(rooms[r].participants)
                       new == IF hasRoom(rooms', r) THEN Elems(rooms'[r].participants)
                              ELSE {}
                   IN  new = old \ {socketData[c].userId}
         ]_vars

\* "b" joined between "a" and "c" and its socket has disconnected
C5_Witness ==
    /\ hasRoom(rooms, "R1") /\ rooms["R1"].participants = <<"a", "c">>
    /\ \E c \in Conns :
         /\ status[c] = "closed"
         /\ socketData[c] = [roomId |-> "R1", userId |-> "b"]
    /\ emitted # <<>> /\ Last(emitted).participants = <<"a", "c">>

\* the sockets bound to a room: connected, with socket.data.roomId = roomId
Bound(st, sd, roomId) == {d \in Conns : st[d] = "open" /\ sd[d].roomId = roomId}

\* C6: every join-room is followed by one room-updated that carries the
\* room's mode and participants as they are after the join and goes to
\* every socket bound to the room, the joining socket included.
C6_JoinRoomUpdated ==
    [][ \A c \in Conns, r \in RoomIds, u \in UserIds :
          JoinRoomHandler(c, r, u)
          => /\ emitted' # <<>>
             /\ Cardinality({i \in 1..Len(emitted') : emitted'[i].type = "room-updated"}) = 1
             /\ LET e == Last(emitted')
                IN  /\ e.type = "room-updated"
                    /\ e.roomId = r
                    /\ hasRoom(rooms', r)
                    /\ e.mode = rooms'[r].mode
                    /\ e.participants = rooms'[r].participants
                    /\ u \in Elems(e.participants)
                    /\ c \in e.to
                    /\ Bound(status', socketData', r) \subseteq e.to
                    /\ e.to = {d \in Conns : status'[d] = "open" /\ r \in socketRooms'[d]}
      ]_vars

\* a join was announced to the joining socket and to another one
C6_Witness ==
    /\ \A c \in Conns : status[c] # "closed"
    /\ emitted # <<>>
    /\ Last(emitted).type = "room-updated"
    /\ Cardinality(Last(emitted).to) >= 2
    /\ Len(Last(emitted).participants) >= 2

\* C7: a join-room emits mode-changed exactly when the room existed and its
\* mode after the join differs from its mode before the join (a room the
\* join creates starts p2p); it is emitted once, to the whole room, before
\* the room-updated of the same join.
C7_JoinModeChanged ==
    [][ \A c \in Conns, r \in RoomIds, u \in UserIds :
          JoinRoomHandler(c, r, u)
          => LET changed == hasRoom(rooms, r) /\ rooms[r].mode # rooms'[r].mode
                 mc == {i \in 1..Len(emitted') : emitted'[i].type = "mode-changed"}
             IN  /\ ~hasRoom(rooms, r) => rooms'[r].mode = "p2p"
                 /\ changed <=> mc # {}
                 /\ changed
                      => /\ mc = {1}
                         /\ Types(emitted') = <<"mode-changed", "room-updated">>
                         /\ emitted'[1].roomId = r
                         /\ emitted'[1].oldMode = rooms[r].mode
                         /\ emitted'[1].newMode = rooms'[r].mode
                         /\ emitted'[1].participants = rooms'[r].participants
                         /\ emitted'[1].to = emitted'[2].to
                         /\ c \in emitted'[1].to
                         /\ Bound(status', socketData', r) \subseteq emitted'[1].to
      ]_vars

\* a join took the room from p2p to sfu
C7_Witness ==
    /\ Len(emitted) = 2
    /\ emitted[1].type = "mode-changed"
    /\ emitted[1].oldMode = "p2p" /\ emitted[1].newMode = "sfu"
    /\ emitted[1].to # {}

\* C8: the disconnect of a socket that has joined removes its identity from
\* its room; if the room is still there and its mode is not what it was,
\* the remaining sockets get mode-changed and then room-updated, both with
\* the state after the leave.
C8_DisconnectLeaves ==
    [][ \A c \in Conns :
          ( /\ Disconnect(c)
            /\ Truthy(socketData[c].roomId) /\ Truthy(socketData[c].userId) )
          => LET r == socketData[c].roomId
                 u == socketData[c].userId
             IN  /\ hasRoom(rooms', r) => u \notin Elems(rooms'[r].participants)
                 /\ ( /\ hasRoom(rooms, r) /\ hasRoom(rooms', r)
                      /\ rooms[r].mode # rooms'[r].mode )
                    => /\ Types(emitted') = <<"mode-changed", "room-updated">>
                       /\ emitted'[1].roomId = r /\ emitted'[2].roomId = r
                       /\ emitted'[1].oldMode = rooms[r].mode
                       /\ emitted'[1].newMode = rooms'[r].mode
                       /\ emitted'[1].participants = rooms'[r].participants
                       /\ emitted'[2].mode = rooms'[r].mode
                       /\ emitted'[2].participants = rooms'[r].participants
                       /\ \A i \in 1..2 :
                            /\ c \notin emitted'[i].to
                            /\ Bound(status', socketData', r) \subseteq emitted'[i].to
      ]_vars

\* a disconnect took the room from sfu to p2p and a socket was told
C8_Witness ==
    /\ Len(emitted) = 2
    /\ emitted[1].type = "mode-changed"
    /\ emitted[1].oldMode = "sfu" /\ emitted[1].newMode = "p2p"
    /\ emitted[1].to # {}
    /\ \E c \in Conns : status[c] = "closed" /\ Truthy(socketData[c].userId)

\* C9: when the disconnect of a socket that has joined empties its room,
\* one room-updated with no participants and mode p2p is emitted for that
\* room, no mode-changed is emitted, and the room is no longer in the registry.
C9_DisconnectEmpties ==
    [][ \A c \in Conns :
          ( /\ Disconnect(c)
            /\ Truthy(socketData[c].roomId) /\ Truthy(socketData[c].userId)
            /\ hasRoom(rooms, socketData[c].roomId)
            /\ Elems(rooms[socketData[c].roomId].participants) = {socketData[c].userId} )
          => /\ Types(emitted') = <<"room-updated">>
             /\ emitted'[1].roomId = socketData[c].roomId
             /\ emitted'[1].participants = <<>>
             /\ emitted'[1].mode = "p2p"
             /\ ~hasRoom(rooms', socketData[c].roomId)
      ]_vars

\* the only socket that joined has disconnected and the empty room was announced
C9_Witness ==
    /\ rooms = <<>>
    /\ Len(emitted) = 1
    /\ emitted[1].type = "room-updated" /\ emitted[1].participants = <<>>
    /\ \E c \in Conns :
         /\ status[c] = "closed"
         /\ Truthy(socketData[c].userId)
         /\ \A d \in Conns \ {c} : ~Truthy(socketData[d].userId)

\* what a forwarding handler must have emitted: one event of the same name
\* with from and payload as sent, to every other connected socket of the
\* room and not to the sender
Forwarded(es, type, c, roomId, from, payload) ==
    /\ Len(es) = 1
    /\ es[1].type = type
    /\ es[1].from = from
    /\ es[1].payload = payload
    /\ c \notin es[1].to
    /\ es[1].to = {d \in Conns \ {c} : status[d] = "open" /\ roomId \in socketRooms[d]}
    /\ Bound(status, socketData, roomId) \ {c} \subseteq es[1].to

\* C10: an offer, answer or ice-candidate a socket sends for roomId is
\* delivered with from and payload unchanged to every other socket bound to
\* roomId and never to the sender.
C10_ForwardToOthers ==
    [][ \A c \in Conns, r \in RoomIds, m \in RelayInputs :
          /\ WebrtcOffer(c, r, m[1], m[2])
               => Forwarded(emitted', "webrtc-offer", c, r, m[1], m[2])
          /\ WebrtcAnswer(c, r, m[1], m[2])
               => Forwarded(emitted', "webrtc-answer", c, r, m[1], m[2])
          /\ WebrtcIceCandidate(c, r, m[1], m[2])
               => Forwarded(emitted', "webrtc-ice-candidate", c, r, m[1], m[2])
      ]_vars

\* a message was forwarded to another socket while a third socket, bound to
\* the other room, was left out
C10_Witness ==
    /\ Len(emitted) = 1
    /\ emitted[1].type \in {"webrtc-offer", "webrtc-answer", "webrtc-ice-candidate"}
    /\ emitted[1].to # {}
    /\ \E d \in Conns :
         /\ status[d] = "open"
         /\ d \notin emitted[1].to
         /\ Truthy(socketData[d].roomId)

\* C11: a negotiation message is forwarded only for a socket that has joined
\* the room it names: a webrtc-offer, webrtc-answer or webrtc-ice-candidate
\* sent by a socket that never performed join-room, or that is bound to
\* another room, is delivered to nobody.
C11_ForwardOnlyJoined ==
    [][ \A c \in Conns, r \in RoomIds, m \in RelayInputs :
          ( /\ \/ WebrtcOffer(c, r, m[1], m[2])
               \/ WebrtcAnswer(c, r, m[1], m[2])
               \/ WebrtcIceCandidate(c, r, m[1], m[2])
            /\ socketData[c].roomId # r )
          => \A i \in 1..Len(emitted') : emitted'[i].to = {}
      ]_vars

\* C12: the identity and the room of a socket are set by its first join-room
\* and never change afterwards, whatever a later join-room carries.
C12_BoundOnce ==
    [][ \A c \in Conns :
          socketData[c] # [roomId |-> Undefined, userId |-> Undefined]
          => socketData'[c] = socketData[c]
      ]_vars

\* C13: a request whose roomId or userId is missing or empty is rejected
\* whatever its kind (POST /api/room, join-room, GET /api/livekit-token):
\* the REST ones answer 400, the join-room emits nothing, the registry stays
\* as it was, and no room ever lists the empty identity or has the empty name.
C13_EmptyRejected ==
    /\ [](\A r \in DOMAIN rooms : r # "" /\ "" \notin Elems(rooms[r].participants))
    /\ [][ \A in \in ApiInputs :
             (~Truthy(in[1]) \/ ~Truthy(in[2]))
             => /\ PostApiRoom(in[1], in[2])
                     => response'.status = 400 /\ rooms' = rooms
                /\ LivekitToken(in[1], in[2])
                     => response'.status = 400 /\ rooms' = rooms
                /\ \A c \in Conns :
                     JoinRoomHandler(c, in[1], in[2])
                     => rooms' = rooms /\ emitted' = <<>> /\ socketData' = socketData
         ]_vars

\* C14: the Room that join, leave or get handed to a caller keeps showing
\* what it showed when it was handed out, whatever joins and leaves follow.
C14_ImmutableSnapshot ==
    held # NoRef => held.now = held.atReturn

\* C15: POST /api/room with both fields present changes the registry as a
\* join does (creates the room with the identity as its only participant,
\* appends an identity that is not listed, leaves a listed one alone, sets
\* the mode from the count, touches no other room) and answers with the mode
\* and the participant count the registry holds for the room after the call.
C15_RestJoin ==
    [][ \A in \in RestInputs :
          ( PostApiRoom(in[1], in[2]) /\ Truthy(in[1]) /\ Truthy(in[2]) )
          => LET r == in[1]
                 u == in[2]
                 before == IF hasRoom(rooms, r) THEN rooms[r].participants ELSE <<>>
             IN  /\ hasRoom(rooms', r)
                 /\ DOMAIN rooms' = DOMAIN rooms \cup {r}
                 /\ \A x \in DOMAIN rooms : x # r => rooms'[x] = rooms[x]
                 /\ rooms'[r].id = r
                 /\ rooms'[r].participants =
                      IF u \in Elems(before) THEN before ELSE Append(before, u)
                 /\ rooms'[r].mode =
                      IF Len(rooms'[r].participants) <= 2 THEN "p2p" ELSE "sfu"
                 /\ rooms' = joinRoom(rooms, r, u)
                 /\ response'.status = 200
                 /\ response'.roomId = r
                 /\ response'.mode = rooms'[r].mode
                 /\ response'.participantsCount = Len(rooms'[r].participants)
      ]_vars

\* a POST /api/room added the third participant and answered sfu, 3
C15_Witness ==
    /\ response.status = 200
    /\ "participants" \notin DOMAIN response
    /\ response.mode = "sfu"
    /\ response.participantsCount = 3
    /\ hasRoom(rooms, "R1") /\ Len(rooms["R1"].participants) = 3

\* C16: whenever the participants or the mode of a room change, by a
\* join-room, a disconnect or a POST /api/room, every open socket bound to
\* the room gets a room-updated for it, and a mode-changed as well when the
\* room was there before and after with a different mode.
C16_EveryChangeBroadcast ==
    [][ \A r \in RoomIds :
          ( \/ hasRoom(rooms, r) # hasRoom(rooms', r)
            \/ hasRoom(rooms, r) /\ hasRoom(rooms', r) /\ rooms'[r] # rooms[r] )
          => \A d \in Bound(status', socketData', r) :
               /\ \E i \in 1..Len(emitted') :
                    /\ emitted'[i].type = "room-updated"
                    /\ emitted'[i].roomId = r
                    /\ d \in emitted'[i].to
               /\ ( hasRoom(rooms, r) /\ hasRoom(rooms', r)
                    /\ rooms'[r].mode # rooms[r].mode )
                  => \E i \in 1..Len(emitted') :
                       /\ emitted'[i].type = "mode-changed"
                       /\ emitted'[i].roomId = r
                       /\ d \in emitted'[i].to
      ]_vars

\* C17: GET /api/room/:roomId never changes the registry; it answers 404
\* exactly when the room is not there, and otherwise the room's mode, its
\* participants in order and their number.
C17_GetRoomReadOnly ==
    [][ \A r \in RoomIds :
          GetApiRoom(r)
          => /\ rooms' = rooms
             /\ response'.status \in {200, 404}
             /\ response'.status = 404 <=> ~hasRoom(rooms, r)
             /\ hasRoom(rooms, r)
                  => /\ response'.roomId = r
                     /\ response'.mode = rooms[r].mode
                     /\ response'.participants = rooms[r].participants
                     /\ response'.participantsCount = Len(rooms[r].participants)
      ]_vars

\* GET /api/room/R1 answered for a room of two, and R2 is not there
C17_Witness ==
    /\ response.status = 200
    /\ "participants" \in DOMAIN response
    /\ response.participantsCount = 2
    /\ ~hasRoom(rooms, "R2")

\* C18: GET /api/livekit-token never changes the registry; on a server where
\* LIVEKIT_API_KEY or LIVEKIT_API_SECRET is not set it always fails and
\* returns no token, with 500 when both roomId and userId are present; with
\* both variables set and both fields present it answers 200 with a token
\* for that identity and room.
C18_TokenNeedsConfig ==
    [][ \A in \in ApiInputs :
          LivekitToken(in[1], in[2])
          => /\ rooms' = rooms
             /\ (~env.apiKey \/ ~env.apiSecret)
                  => /\ response'.status \in {400, 500}
                     /\ "token" \notin DOMAIN response'
                     /\ (Truthy(in[1]) /\ Truthy(in[2])) => response'.status = 500
             /\ (env.apiKey /\ env.apiSecret /\ Truthy(in[1]) /\ Truthy(in[2]))
                  => /\ response'.status = 200
                     /\ response'.token.identity = in[2]
                     /\ response'.token.room = in[1]
      ]_vars

\* the token endpoint answered 500 on a server with the key but no secret,
\* while a room exists
C18_Witness ==
    /\ env.apiKey /\ ~env.apiSecret
    /\ response.status = 500
    /\ hasRoom(rooms, "R1")

\* the component p holds its own offer, no answer to it has arrived, and an
\* offer of another identity has just reached it
Glare(p) ==
    LET pc == peers[p]
    IN  /\ pc.signalingState = "have-local-offer"
        /\ pc.pendingLocalDescription = OfferOf(p, "own")
        /\ pc.chain # <<>>
        /\ Last(pc.chain).at \in {"offer:243", "offer:246"}
        /\ Last(pc.chain).msg.by # p
        /\ \A i \in 1..Len(pc.chain) : pc.chain[i].at # "answer:277"

\* the component p is at rest and stable, its own offer is gone and was sent
\* once, an offer of another identity is its remote description, an answer
\* of its own is its local description, and it has emitted that answer
Deferred(p) ==
    LET pc == peers[p]
    IN  /\ pc.chain = <<>>
        /\ pc.signalingState = "stable"
        /\ pc.pendingLocalDescription = Null
        /\ pc.currentRemoteDescription.type = "offer"
        /\ pc.currentRemoteDescription.by # p
        /\ pc.currentLocalDescription.type = "answer"
        /\ pc.currentLocalDescription.by = p
        /\ \E i \in 1..Len(pc.sent) :
             pc.sent[i] = [type |-> "webrtc-answer", from |-> p,
                           payload |-> pc.currentLocalDescription]
        /\ Cardinality({i \in 1..Len(pc.sent) : pc.sent[i].type = "webrtc-offer"}) = 1

\* C19: a component that has sent its own offer, has no answer to it yet and
\* then receives the offer of another identity always gives way, whoever
\* the two identities are: it ends up stable with an incoming offer as its
\* remote description and the answer to it emitted, its own offer dropped
\* and not sent again.
C19_GlareResolved ==
    \A p \in Peers : Glare(p) ~> Deferred(p)

\* the component gave way to o1 after it had sent its own offer
C19_Witness ==
    /\ Deferred("a")
    /\ peers["a"].sent[1].type = "webrtc-offer"
    /\ Len(peers["a"].sent) = 2
    /\ peers["a"].currentRemoteDescription = OfferOf("b", "o1")

\* the candidate c is on the queue, on its way through addIceCandidate, or
\* applied
Kept20(pc, c) ==
    \/ c \in Elems(pc.pendingCandidatesRef)
    \/ \E i \in 1..Len(pc.chain) :
         pc.chain[i].name = "addIceCandidate" /\ pc.chain[i].arg = c
    \/ c \in Elems(pc.added)

\* C20: a candidate of another identity that arrives while there is no
\* remote description is put on the queue and not applied; the candidates
\* put on the queue are never lost, they are applied in the order in which
\* they arrived, and once there is a remote description the queue empties.
C20_QueuedThenApplied ==
    /\ [][ \A p \in Peers, m \in CandidateInputs :
             ( /\ OnWebrtcIceCandidate(p, m[1], m[2])
               /\ m[1] # p
               /\ remoteDescription(peers[p]) = Null )
             => /\ peers'[p].pendingCandidatesRef =
                     Append(peers[p].pendingCandidatesRef, m[2])
                /\ peers'[p].chain = peers[p].chain
                /\ peers'[p].added = peers[p].added
         ]_vars
    /\ [](\A p \in Peers :
            /\ \A c \in peers[p].queued : Kept20(peers[p], c)
            /\ \A c, d \in peers[p].queued :
                 ( /\ c \in Elems(peers[p].added) /\ d \in Elems(peers[p].added)
                   /\ Pos(peers[p].received, c) < Pos(peers[p].received, d) )
                 => Pos(peers[p].added, c) < Pos(peers[p].added, d))
    /\ \A p \in Peers :
         (remoteDescription(peers[p]) # Null /\ peers[p].pendingCandidatesRef # <<>>)
           ~> (peers[p].pendingCandidatesRef = <<>>)


\* C21: an offer, an answer or a candidate whose from is the receiving
\* peer's own identity changes nothing of that peer (signaling state,
\* descriptions, operations chain, pending candidate queue, initiator flag)
\* and nothing is emitted in response
C21_SelfEchoIgnored ==
    [][\A p \in Peers :
          /\ \A m \in OfferInputs :
                 m[1] = p /\ OnWebrtcOffer(p, m[1], m[2])
                     => peers'[p] = peers[p]
          /\ \A m \in AnswerInputs :
                 m[1] = p /\ OnWebrtcAnswer(p, m[1], m[2])
                     => peers'[p] = peers[p]
          /\ \A m \in CandidateInputs :
                 m[1] = p /\ OnWebrtcIceCandidate(p, m[1], m[2])
                     => peers'[p] = peers[p]]_vars

\* the peer has sent its offer, every message delivered to it since the
\* mount was an echo of its own, and it still waits for the answer
C21_Witness ==
    \E p \in Peers :
        /\ nops >= 2
        /\ peers[p].heard = {} /\ peers[p].received = <<>>
        /\ peers[p].signalingState = "have-local-offer"
        /\ Len(peers[p].sent) = 1
        /\ peers[p].chain = <<>>


\* the number of participants of room R1, 0 when there is no such room
Size(rs) == IF hasRoom(rs, "R1") THEN Len(getRoom(rs, "R1").participants) ELSE 0

\* the events of one type among the emitted ones
OfType(es, type) == {i \in 1..Len(es) : es[i].type = type}

\* C22: there is no hysteresis: whenever a join-room takes a room from 2
\* to 3 participants the room is sfu right after it, whenever a disconnect
\* takes it from 3 to 2 the room is p2p right after it, and each such step
\* emits exactly one mode-changed from the old to the new mode, however
\* many times the room has crossed the boundary before.
C22_NoHysteresis ==
    [][/\ Size(rooms) = 2 /\ Size(rooms') = 3
          => /\ getRoom(rooms, "R1").mode = "p2p"
             /\ getRoom(rooms', "R1").mode = "sfu"
             /\ Cardinality(OfType(emitted', "mode-changed")) = 1
             /\ emitted'[1].type = "mode-changed"
             /\ emitted'[1].oldMode = "p2p" /\ emitted'[1].newMode = "sfu"
             /\ nops' = nops + 1
       /\ Size(rooms) = 3 /\ Size(rooms') = 2
          => /\ getRoom(rooms, "R1").mode = "sfu"
             /\ getRoom(rooms', "R1").mode = "p2p"
             /\ Cardinality(OfType(emitted', "mode-changed")) = 1
             /\ emitted'[1].type = "mode-changed"
             /\ emitted'[1].oldMode = "sfu" /\ emitted'[1].newMode = "p2p"
             /\ nops' = nops + 1]_vars

\* the room has gone to sfu and back twice, and the last disconnect
\* announced the change to p2p
C22_Witness ==
    /\ nops = 4
    /\ Size(rooms) = 2 /\ getRoom(rooms, "R1").mode = "p2p"
    /\ Len(emitted) = 2
    /\ emitted[1].type = "mode-changed" /\ emitted[1].newMode = "p2p"


\* C23: the disconnect of a connection performs its implicit leave in the
\* same step that closes it (the identity it is bound to is out of the room
\* it is bound to, the socket is out of every Socket.IO room), and from
\* then on no join-room, offer, answer or candidate of that connection is
\* applied or forwarded.
C23_NothingAfterDisconnect ==
    [][\A c \in Conns :
          /\ Disconnect(c)
                => /\ status'[c] = "closed"
                   /\ socketRooms'[c] = {}
                   /\ LET r == socketData[c].roomId
                          u == socketData[c].userId
                      IN  Truthy(r) /\ Truthy(u) /\ hasRoom(rooms', r)
                              => ~includes(getRoom(rooms', r).participants, u)
          /\ status[c] = "closed"
                => /\ status'[c] = "closed"
                   /\ socketRooms'[c] = {} /\ socketData'[c] = socketData[c]
                   /\ \A in \in JoinInputs : ~JoinRoomHandler(c, in[1], in[2])
                   /\ \A r \in RoomIds, m \in RelayInputs :
                          /\ ~WebrtcOffer(c, r, m[1], m[2])
                          /\ ~WebrtcAnswer(c, r, m[1], m[2])
                          /\ ~WebrtcIceCandidate(c, r, m[1], m[2])
                   /\ \A i \in 1..Len(emitted') : c \notin emitted'[i].to]_vars

\* a socket that had joined a room has disconnected, and an offer that
\* another socket sent to that room has been forwarded since
C23_Witness ==
    \E c, d \in Conns :
        /\ status[c] = "closed" /\ Truthy(socketData[c].roomId)
        /\ status[d] = "open"
        /\ Len(emitted) = 1 /\ emitted[1].type = "webrtc-offer"


\* what the registry says of a room: its mode and participants, or p2p and
\* no participants when there is no such room
View(rs, r) ==
    IF hasRoom(rs, r)
    THEN [mode |-> getRoom(rs, r).mode, participants |-> getRoom(rs, r).participants]
    ELSE [mode |-> "p2p", participants |-> <<>>]

\* C24: joins and leaves on a room are linearized: every step is the whole
\* of one operation.  A step changes one room at most and by one identity
\* at most; the mode it leaves is the one that goes with the participants
\* it leaves; what it broadcasts is read from the registry as the step
\* leaves it, never from a state in between, and the old mode it announces
\* is the mode the step found.
C24_HandlersAtomic ==
    [][/\ \A r, q \in RoomIds :
              View(rooms', r) # View(rooms, r) /\ View(rooms', q) # View(rooms, q)
                  => r = q
       /\ \A r \in RoomIds :
              LET old == View(rooms, r).participants
                  new == View(rooms', r).participants
              IN  /\ Cardinality((Elems(old) \ Elems(new))
                                   \cup (Elems(new) \ Elems(old))) <= 1
                  /\ View(rooms', r).mode = modeFor(Len(new))
       /\ \A i \in 1..Len(emitted') :
              LET e == emitted'[i]
              IN  /\ e.type = "room-updated"
                        => /\ e.mode = View(rooms', e.roomId).mode
                           /\ e.participants = View(rooms', e.roomId).participants
                  /\ e.type = "mode-changed"
                        => /\ e.oldMode = View(rooms, e.roomId).mode
                           /\ e.newMode = View(rooms', e.roomId).mode
                           /\ e.participants = View(rooms', e.roomId).participants
                           /\ i = 1 /\ Len(emitted') = 2
                           /\ emitted'[2].type = "room-updated"
                           /\ emitted'[2].roomId = e.roomId]_vars

\* three sockets are in one room, two more operations on it have run (a
\* join made it sfu, a disconnect made it p2p again), and the disconnect
\* announced the room as it left it
C24_Witness ==
    /\ \E c, d \in Conns :
          /\ c # d /\ status[c] = "open" /\ status[d] = "open"
          /\ socketData[c].roomId = "R1" /\ socketData[d].roomId = "R1"
          /\ socketData[c].userId # socketData[d].userId
    /\ \E c \in Conns : status[c] = "closed" /\ socketData[c].roomId = "R1"
    /\ Len(emitted) = 2
    /\ emitted[1].type = "mode-changed" /\ emitted[1].oldMode = "sfu"
    /\ emitted[2].participants = View(rooms, "R1").participants
    /\ Len(View(rooms, "R1").participants) = 2


\* C25: leaveRoom for an identity that is not among the participants of an
\* existing room returns that room and leaves the whole registry as it is,
\* participants and mode of the room included; leaveRoom for a room id that
\* is not in the registry returns null and leaves the registry as it is
\* (no room is created, no other room changes).  So it is in every
\* reachable registry, and in every disconnect that makes such a call.
C25_StrayLeaveChangesNothing ==
    /\ [](\A r \in RoomIds, u \in UserIds :
             LET res == leaveRoom(rooms, r, u)
             IN  /\ ~hasRoom(rooms, r) => res.null /\ res.rooms = rooms
                 /\ hasRoom(rooms, r) /\ ~includes(getRoom(rooms, r).participants, u)
                        => ~res.null /\ res.rooms = rooms)
    /\ [][\A c \in Conns :
             Disconnect(c) /\ stray(rooms, socketData[c]) = 1
                 => /\ rooms' = rooms
                    /\ Types(emitted') = <<"room-updated">>
                    /\ emitted'[1].participants
                           = View(rooms, socketData[c].roomId).participants]_vars

\* a socket has disconnected whose identity was no participant of its room
\* any more (another socket bound to the same identity had left), the room
\* is there with its participants, and a socket that is still in it was
\* told so
C25_Witness ==
    /\ nops = 1
    /\ \E c \in Conns :
          /\ status[c] = "closed"
          /\ hasRoom(rooms, socketData[c].roomId)
          /\ ~includes(getRoom(rooms, socketData[c].roomId).participants,
                       socketData[c].userId)
          /\ Types(emitted) = <<"room-updated">>
          /\ emitted[1].roomId = socketData[c].roomId
          /\ emitted[1].participants = getRoom(rooms, socketData[c].roomId).participants
          /\ emitted[1].to # {}
          /\ \A d \in emitted[1].to : socketData[d].userId # socketData[c].userId


\* the component p is stable and an offer of another identity has just
\* been handed to setRemoteDescription
Offered(p) ==
    LET pc == peers[p]
    IN  /\ pc.signalingState = "stable"
        /\ pc.chain # <<>>
        /\ Last(pc.chain).at = "offer:246"
        /\ Last(pc.chain).arg.by # p

\* the component p is stable with an offer of another identity as its
\* remote description; every candidate that was put on the queue is
\* applied, in the order of arrival; the last message it emitted is its
\* answer, which is its local description
Answered(p) ==
    LET pc == peers[p]
    IN  /\ pc.signalingState = "stable"
        /\ pc.currentRemoteDescription.type = "offer"
        /\ pc.currentRemoteDescription.by # p
        /\ pc.pendingCandidatesRef = <<>>
        /\ \A c \in pc.queued : c \in Elems(pc.added)
        /\ \A c, d \in pc.queued :
             Pos(pc.received, c) < Pos(pc.received, d)
                 => Pos(pc.added, c) < Pos(pc.added, d)
        /\ pc.sent # <<>>
        /\ Last(pc.sent) = [type |-> "webrtc-answer", from |-> p,
                            payload |-> pc.currentLocalDescription]

\* C26: a component that receives the offer of another identity while its
\* signaling state is stable sets it as remote description, applies every
\* queued candidate in the order of arrival, emits its answer and ends up
\* stable.
C26_OfferAnswered ==
    \A p \in Peers : Offered(p) ~> Answered(p)


\* the component p has its own offer set, no offer of another identity is
\* being handled, and the answer of another identity has just been handed
\* to setRemoteDescription
Awaited(p) ==
    LET pc == peers[p]
    IN  /\ pc.signalingState = "have-local-offer"
        /\ pc.chain # <<>>
        /\ Last(pc.chain).at = "answer:277"
        /\ Last(pc.chain).arg.by # p
        /\ \A i \in 1..Len(pc.chain) :
             pc.chain[i].at \notin {"offer:243", "offer:246", "offer:254",
                                    "offer:258", "offer:259"}

\* the component p is stable, the answer of another identity is its remote
\* description and its own offer is its local description
Accepted(p) ==
    LET pc == peers[p]
    IN  /\ pc.signalingState = "stable"
        /\ pc.currentRemoteDescription.type = "answer"
        /\ pc.currentRemoteDescription.by # p
        /\ pc.currentLocalDescription = OfferOf(p, "own")
        /\ pc.pendingLocalDescription = Null

\* nothing is left on the queue of p and every candidate that was put on
\* it is applied, in the order of arrival
Drained(p) ==
    LET pc == peers[p]
    IN  /\ pc.pendingCandidatesRef = <<>>
        /\ \A c \in pc.queued : c \in Elems(pc.added)
        /\ \A c, d \in pc.queued :
             Pos(pc.received, c) < Pos(pc.received, d)
                 => Pos(pc.added, c) < Pos(pc.added, d)

C28_NoCandidateDiscarded ==
    \A p \in Peers :
        \A i \in 1..Len(peers[p].received) :
            Kept20(peers[p], peers[p].received[i])


\* the number of offers the component has emitted
Offers(pc) == Cardinality(OfType(pc.sent, "webrtc-offer"))

\* C29: a component emits an offer only after it has seen the room with
\* exactly 2 participants (that alone starts the timer, and the timer alone
\* starts createOffer), and when it emits the offer it has neither emitted
\* nor received an offer before; so a component that has received an offer
\* never emits one afterwards.
C29_InitiatorSelection ==
    [][\A p \in Peers :
          /\ peers[p].timer = "none" /\ peers'[p].timer # "none"
                => OnRoomUpdated(p, 2) \/ OnRoomState(p, 2)
          /\ ( /\ Len(peers'[p].chain) > Len(peers[p].chain)
               /\ Last(peers'[p].chain).at = "createOffer:213" )
                => Timeout(p)
          /\ Offers(peers'[p]) > Offers(peers[p])
                => /\ Offers(peers[p]) = 0
                   /\ "webrtc-offer" \notin peers[p].heard
      ]_vars


\* C30: within one mount a component emits at most one offer, whichever of
\* the room-updated path and the room-state-on-mount path starts it; an
\* offer that was rolled back is not created again.
C30_AtMostOneOffer ==
    /\ [](\A p \in Peers : Offers(peers[p]) <= 1)
    /\ [][\A p \in Peers :
             ( /\ \E i \in 1..Len(peers'[p].chain) :
                    peers'[p].chain[i].at = "createOffer:213"
               /\ \A i \in 1..Len(peers[p].chain) :
                    peers[p].chain[i].at # "createOffer:213" )
             => /\ Timeout(p)
                /\ Offers(peers[p]) = 0
                /\ \A i \in 1..Len(peers[p].chain) :
                     peers[p].chain[i].at # "createOffer:214"
                /\ peers[p].pendingLocalDescription = Null
         ]_vars

\* the own offer was emitted and rolled back for the offer of another
\* identity, the room was seen with 2 participants again (room-updated and
\* the fetch on mount), no timer is armed, and the one offer is all there is
C30_Witness ==
    \E p \in Peers :
        /\ Offers(peers[p]) = 1
        /\ peers[p].sent[1].type = "webrtc-offer"
        /\ peers[p].pendingLocalDescription = Null
        /\ peers[p].currentLocalDescription.type = "answer"
        /\ peers[p].currentRemoteDescription.type = "offer"
        /\ peers[p].fetch = "done" /\ peers[p].timer = "none"
        /\ peers[p].chain = <<>> /\ peers[p].signalingState = "stable"


\* C34: in every reachable state the identity of every connected socket
\* that is bound to a room is among the participants of that room, and the
\* room is in the registry.
C34_JoinedIsParticipant ==
    \A c \in Conns :
        ( /\ status[c] = "open"
          /\ Truthy(socketData[c].roomId) /\ Truthy(socketData[c].userId) )
        => /\ hasRoom(rooms, socketData[c].roomId)
           /\ includes(getRoom(rooms, socketData[c].roomId).participants,
                       socketData[c].userId)

\* C35: every participant of a room is the identity of at least one
\* connected socket that is bound to that room, so a room to which no
\* connected socket is bound is not in the registry.
C35_NoGhostParticipants ==
    \A r \in DOMAIN rooms :
        \A i \in 1..Len(rooms[r].participants) :
            \E c \in Conns :
                /\ status[c] = "open"
                /\ socketData[c].roomId = r
                /\ socketData[c].userId = rooms[r].participants[i]


\* C39: a token is issued only for an identity that is, at that moment, a
\* participant of a room of the registry whose mode is sfu: the response of
\* GET /api/livekit-token carries a token only if the room it grants
\* exists, is sfu and lists the identity.
C39_TokenOnlyForSfuMember ==
    "token" \in DOMAIN response
        => /\ hasRoom(rooms, response.token.room)
           /\ getRoom(rooms, response.token.room).mode = "sfu"
           /\ includes(getRoom(rooms, response.token.room).participants,
                       response.token.identity)


\* C36: a socket receives room-updated, mode-changed, offer, answer and
\* candidate events only of the room it is bound to (the roomId of its
\* last join-room), so none of the room it was bound to before; and a
\* join-room or a disconnect changes no room of the registry but its own.
C36_RoomIsolation ==
    [][/\ \A i \in 1..Len(emitted') :
              emitted'[i].type \in {"room-updated", "mode-changed"}
                  => \A d \in emitted'[i].to :
                         socketData'[d].roomId = emitted'[i].roomId
       /\ \A c \in Conns, r \in RoomIds, m \in RelayInputs :
              ( \/ WebrtcOffer(c, r, m[1], m[2])
                \/ WebrtcAnswer(c, r, m[1], m[2])
                \/ WebrtcIceCandidate(c, r, m[1], m[2]) )
                  => \A d \in emitted'[1].to : socketData[d].roomId = r
       /\ \A c \in Conns, in \in JoinInputs :
              JoinRoomHandler(c, in[1], in[2])
                  => \A q \in RoomIds \ {in[1]} : View(rooms', q) = View(rooms, q)
       /\ \A c \in Conns :
              Disconnect(c)
                  => \A q \in RoomIds \ {socketData[c].roomId} :
                         View(rooms', q) = View(rooms, q)
      ]_vars

\* C38: the from of every forwarded offer, answer and candidate is the
\* identity the sending socket is bound to.
C38_FromIsBoundIdentity ==
    [][\A c \in Conns, r \in RoomIds, m \in RelayInputs :
          ( \/ WebrtcOffer(c, r, m[1], m[2])
            \/ WebrtcAnswer(c, r, m[1], m[2])
            \/ WebrtcIceCandidate(c, r, m[1], m[2]) )
              => \A i \in 1..Len(emitted') :
                     emitted'[i].to # {} => emitted'[i].from = socketData[c].userId
      ]_vars


\* C37: candidates of the other peer are applied in the order in which
\* they were received: a candidate is never applied while a candidate
\* received before it is still on the queue, and the applied candidates
\* stand in the order of their receipt.
C37_AppliedInReceiptOrder ==
    \A p \in Peers :
        \A c, d \in Elems(peers[p].received) :
            ( /\ Pos(peers[p].received, c) < Pos(peers[p].received, d)
              /\ d \in Elems(peers[p].added) )
            => /\ c \notin Elems(peers[p].pendingCandidatesRef)
               /\ c \in Elems(peers[p].added)
                     => Pos(peers[p].added, c) < Pos(peers[p].added, d)


\* C40: the mode a connected client shows converges to the mode of its
\* room: whenever every event emitted to a connected, bound socket has
\* been delivered, the currentMode of its Call component is the mode of the
\* room in the registry.
C40_ModeViewConverges ==
    \A c \in Conns :
        ( /\ status[c] = "open"
          /\ Truthy(socketData[c].roomId)
          /\ clients[c].down = <<>> )
        => clients[c].currentMode = View(rooms, socketData[c].roomId).mode


\* what has reached socket r and what is on its way to it, negotiation
\* messages only, in the order of arrival
Inbound(r) ==
    clients[r].got \o SelectSeq(clients[r].down, LAMBDA e : e.type \in Negotiation)

Established(p) ==
    /\ peers[p].signalingState = "stable"
    /\ peers[p].currentRemoteDescription # Null
    /\ peers[p].currentLocalDescription # Null

\* C32: two components in one room, both connected, every event delivered:
\* eventually both are stable with a remote description set, whatever the
\* order in which they register their handlers and send their offers.
C32_NegotiationCompletes == <>(\A p \in Pair : Established(p))

\* nothing is under way: no event on its way to a socket, no operation on a
\* chain, no timer, no fetch, no component still mounting
Quiet ==
    /\ \A p \in Pair :
          /\ clients[Sock(p)].down = <<>>
          /\ peers[p].chain = <<>>
          /\ peers[p].timer = "none"
          /\ peers[p].fetch = "done"

\* p made the offer of the session and q answered it
Agreed(p, q) ==
    /\ peers[p].currentLocalDescription.type = "offer"
    /\ peers[p].currentRemoteDescription.type = "answer"
    /\ peers[q].currentRemoteDescription = peers[p].currentLocalDescription
    /\ peers[q].currentLocalDescription = peers[p].currentRemoteDescription
    /\ peers[p].currentRemoteDescription.re = peers[p].currentLocalDescription.id

\* C33: when both components are stable, nothing is under way and one of
\* them holds a remote description, one of them holds its own offer and the
\* answer of the other, and the other holds that offer and that answer.
C33_SessionsAgree ==
    (/\ Quiet
     /\ \A p \in Pair : peers[p].signalingState = "stable"
     /\ \E p \in Pair : peers[p].currentRemoteDescription # Null)
       => (/\ \A p \in Pair : Established(p)
           /\ Agreed("a", "b") \/ Agreed("b", "a"))

====
